---- MODULE Spec2Model ----
(***************************************************************************)
(* Caption-generation fallback pipeline and asynchronous publish workflow  *)
(* of the Instagram caption backend (src/backend/app).                     *)
(*                                                                         *)
(* Text is modelled as a sequence of tokens.  A token is one character     *)
(* (" ", "a", the quote characters, "(", ")", "}") or one of the fixed     *)
(* phrases the code tests for with startswith / in / find (the preamble    *)
(* phrases, the field prefixes of the response layout, the ";position:"    *)
(* fragments).                                                             *)
(***************************************************************************)
EXTENDS Integers, Sequences, FiniteSets, TLC

VARIABLES
    cpc,          \* position of the caption request being handled
    creq,         \* the caption request (kind, file name / text, image)
    description,  \* the description handed to the caption strategies
    descLog,      \* description attempts of this request, in order
    capLog,       \* caption-strategy attempts of this request, in order
    cresp,        \* the response of the caption endpoint
    blipClass,    \* BlipImageProcessor._processor / ._model (class level)
    dcall,        \* last direct call of a description extractor
    posts,        \* content store: Post rows by primary key
    nextId,       \* next primary key handed out by the database sequence
    jobs,         \* publish jobs (background threads) by job number
    upd,          \* the update_post request in flight, if any
    served,       \* content store requests served so far
    disk,         \* the files and directories that exist
    runs,         \* runs of the isolated posting script
    norm,         \* last direct call of an image normalizer
    crud,         \* last content store request of a given caller, and its answer
    gate,         \* registered users and the last call of a protected endpoint
    loads,        \* the BLIP class-level pair and the constructions in progress
    fcall         \* last direct call of a text or image helper

vars == <<cpc, creq, description, descLog, capLog, cresp, blipClass, dcall,
          posts, nextId, jobs, upd, served, disk, runs, norm, crud,
          gate, loads, fcall>>

\* what the caption endpoint and the content store requests leave alone
callVars == <<gate, loads, fcall>>
ioVars == <<disk, runs, norm, crud, callVars>>

-----------------------------------------------------------------------------
(* Bounds of the model *)

\* lines in a remote response of the single-call strategy
MaxLines == 2
\* content store requests served (create, update, delete, publish trigger)
MaxRequests == 2
\* calls of post_to_instagram, each running the posting script once
MaxRuns == 2
\* lines of a response fed to the parser in a direct call
MaxFed == 4
\* constructions of BlipImageProcessor in one process
MaxCtors == 2
\* tokens of a caption text handed to the clean-up in a direct call
MaxClean == 3

-----------------------------------------------------------------------------
(* Python string primitives on token sequences *)

Min(a, b) == IF a < b THEN a ELSE b

\* s[:n]
Take(s, n) == SubSeq(s, 1, Min(n, Len(s)))

\* s[n:]  (n counted from 0, as in Python)
Drop(s, n) == SubSeq(s, n + 1, Len(s))

RECURSIVE LStrip(_)
LStrip(s) == IF s # <<>> /\ Head(s) = " " THEN LStrip(Tail(s)) ELSE s

RECURSIVE RStrip(_)
RStrip(s) ==
    IF s # <<>> /\ s[Len(s)] = " " THEN RStrip(SubSeq(s, 1, Len(s) - 1)) ELSE s

\* str.strip()
Strip(s) == RStrip(LStrip(s))

\* s.startswith(p) for a one-token phrase p
StartsWith(s, p) == s # <<>> /\ Head(s) = p

\* s.endswith(p) for a one-token phrase p
EndsWith(s, p) == s # <<>> /\ s[Len(s)] = p

\* s.find(set of tokens, start): first index (1-based) at or after start, 0 if none
Find(s, toks, start) ==
    LET hits == {i \in start..Len(s) : s[i] \in toks}
    IN  IF hits = {} THEN 0 ELSE CHOOSE i \in hits : \A k \in hits : i <= k

\* str.split(): the whitespace-separated words of s
RECURSIVE Split(_)
Split(s) ==
    LET t == LStrip(s)
    IN  IF t = <<>> THEN <<>>
        ELSE LET sp == Find(t, {" "}, 1)
             IN  IF sp = 0 THEN <<t>>
                 ELSE <<SubSeq(t, 1, sp - 1)>> \o Split(Drop(t, sp))

-----------------------------------------------------------------------------
(* Caption clean-up *)

prefixes_to_remove ==
    << "Here's a reflective and thoughtful Instagram caption:",
       "Here's a reflective caption:",
       "Here's a thoughtful caption:",
       "Here's a humorous caption:",
       "Here's a casual caption:",
       "Here's a poetic caption:",
       "Here's an Instagram caption:",
       "Sure, how about:",
       "How about:",
       "I suggest:",
       "Try this:",
       "Here is a simple & lighthearted Instagram caption idea:",
       "Here's a simple caption:",
       "Here's a lighthearted caption:",
       "Here's a simple & lighthearted caption:",
       "Caption:" >>

\* for prefix in prefixes_to_remove: if text.startswith(prefix): text = text[len(prefix):].strip()
RECURSIVE RemovePrefixes(_, _)
RemovePrefixes(text, i) ==
    IF i > Len(prefixes_to_remove) THEN text
    ELSE RemovePrefixes(IF StartsWith(text, prefixes_to_remove[i])
                        THEN Strip(Tail(text)) ELSE text, i + 1)

\* if (text.startswith('"') and text.endswith('"')) or (... "'" ...): text = text[1:-1].strip()
RemoveQuotes(text) ==
    IF (StartsWith(text, "\"") /\ EndsWith(text, "\""))
       \/ (StartsWith(text, "'") /\ EndsWith(text, "'"))
    THEN Strip(SubSeq(text, 2, Len(text) - 1))
    ELSE text

\* every token that contains the characters ";position:"
CssStartTokens == {";position:absolute;", ";position:abso/ute;", ";position:"}

\* the CSS-like fragment: found only when a full ";position:absolute;" (or the
\* "abso/ute" variant) is present, cut from the first ";position:" when that is
\* not at index 0, up to and including the next "}" or else to the end
RemoveCss(text) ==
    IF \E i \in 1..Len(text) : text[i] \in {";position:absolute;", ";position:abso/ute;"}
    THEN LET css_start == Find(text, CssStartTokens, 1)
         IN  IF css_start > 1
             THEN LET css_end == Find(text, {"}"}, css_start)
                  IN  IF css_end > css_start
                      THEN SubSeq(text, 1, css_start - 1) \o Drop(text, css_end)
                      ELSE SubSeq(text, 1, css_start - 1)
             ELSE text
    ELSE text

\* DirectCohereGenerator: the nested clean_caption
clean_caption(caption_text) == RemoveCss(RemoveQuotes(RemovePrefixes(caption_text, 1)))

\* CaptionGenerator._parse_caption_response: the clean-up of one caption's text,
\* with its extra "Caption:" test between the prefix loop and the quotes
clean_parsed_text(text) ==
    LET t1 == RemovePrefixes(text, 1)
        t2 == IF StartsWith(t1, "Caption:") THEN Strip(Tail(t1)) ELSE t1
    IN  RemoveCss(RemoveQuotes(t2))

-----------------------------------------------------------------------------
(* Remote generation calls (cohere.Client.generate) *)

\* what one generation call can do: return a text, raise, or return a response
\* without generations (response.generations[0] then raises IndexError)
Errors == {<<"timeout">>}
IndexError == <<"list index out of range">>

CallOk(t) == [kind |-> "ok", text |-> t, err |-> <<>>]
CallRaise(e) == [kind |-> "raise", text |-> <<>>, err |-> e]
CallMalformed == [kind |-> "malformed", text |-> <<>>, err |-> IndexError]

CallOutcomes(texts) ==
    {CallOk(t) : t \in texts} \cup {CallRaise(e) : e \in Errors} \cup {CallMalformed}

\* the text of response.generations[0].text, or the exception of the call
CallFails(c) == c.kind # "ok"

-----------------------------------------------------------------------------
(* DirectCohereGenerator: one call per style, no exception handler *)

Caption(style, text, hashtags, emojis, formatting) ==
    [style |-> style, text |-> text, hashtags |-> hashtags,
     emojis |-> emojis, formatting |-> formatting]

\* the description as embedded into the four prompts: the f-strings take the
\* argument as it was passed (lines 43, 70, 85, 100)
DirectPrompt(d) == d

\* generate_caption + the three styled calls of generate_caption_with_suggestions,
\* in order main, casual, poetic, humorous; the first failing call propagates
DirectCohereGenerator_generate(d, calls) ==
    LET bad == {i \in 1..4 : CallFails(calls[i])}
    IN  IF bad # {}
        THEN LET first == CHOOSE i \in bad : \A k \in bad : i <= k
             IN  [raised |-> TRUE, err |-> calls[first].err, ncalls |-> first,
                  batch |-> [captions |-> <<>>], prompt |-> DirectPrompt(d)]
        ELSE [raised |-> FALSE, err |-> <<>>, ncalls |-> 4, prompt |-> DirectPrompt(d),
              batch |-> [captions |-> <<
                 Caption(<<"main">>, clean_caption(Strip(calls[1].text)),
                         << <<"#Instagram">>, <<"#PhotoOfTheDay">> >>,
                         <<"camera", "sparkles">>,
                         <<"Add a line break after the caption text">>),
                 Caption(<<"casual">>, clean_caption(Strip(calls[2].text)),
                         << <<"#GoodVibes">>, <<"#InstaDaily">> >>,
                         <<"smile", "victory">>,
                         <<"Add emojis at the end of the caption">>),
                 Caption(<<"poetic">>, clean_caption(Strip(calls[3].text)),
                         << <<"#SoulfulMoments">>, <<"#DeepThoughts">> >>,
                         <<"rose", "dizzy">>,
                         <<"Add a line break after each sentence">>),
                 Caption(<<"humorous">>, clean_caption(Strip(calls[4].text)),
                         << <<"#JustForLaughs">>, <<"#WeekendVibes">> >>,
                         <<"joy", "rofl">>,
                         <<"Add emojis at the beginning of the caption">>) >>]]

-----------------------------------------------------------------------------
(* MockCaptionGenerator: templates, no remote call *)

MockCaptionGenerator_generate(d0) ==
    LET d == IF d0 = <<>> \/ Strip(d0) = <<>> THEN <<"a beautiful scene">> ELSE d0
    IN  [raised |-> FALSE, err |-> <<>>, ncalls |-> 0,
         batch |-> [captions |-> <<
            Caption(<<"casual">>,
                    <<"Just vibing with this ">> \o d \o <<"! Life's simple pleasures.">>,
                    << <<"#GoodVibes">>, <<"#InstaDaily">>, <<"#LifeIsGood">> >>,
                    <<"smile", "victory", "star">>,
                    <<"Add a line break after the caption text">>),
            Caption(<<"poetic">>,
                    <<"In the gentle whispers of ">> \o d \o <<", I found a piece of my soul.">>,
                    << <<"#SoulfulMoments">>, <<"#Poetry">>, <<"#DeepThoughts">> >>,
                    <<"rose", "sparkles", "dizzy">>,
                    <<"Add a line break after each sentence">>),
            Caption(<<"humorous">>,
                    <<"When ">> \o d \o <<" is your therapy! No regrets, just good times.">>,
                    << <<"#NoFilter">>, <<"#JustForLaughs">>, <<"#WeekendVibes">> >>,
                    <<"joy", "rofl", "raised_hands">>,
                    <<"Add emojis at the end of the caption">>) >>]]

-----------------------------------------------------------------------------
(* CaptionGenerator: one call, a retry on the lighter model, a line parser *)

\* dict[key] = value
Put(dict, key, value) == (key :> value) @@ dict

EmptyDict == [k \in {} |-> <<>>]

Has(dict, key) == key \in DOMAIN dict

\* line.startswith("Caption"): the header word, and the phrase "Caption:" too
CaptionWords == {"Caption", "Caption:"}

Lower(tok) ==
    CASE tok = "Casual" -> "casual"
      [] tok = "Poetic" -> "poetic"
      [] tok = "Humorous" -> "humorous"
      [] OTHER -> tok

\* style = "casual"; if "(" in line and ")" in line:
\*     style = line.split("(")[1].split(")")[0].lower()
StyleOf(line) ==
    IF Find(line, {"("}, 1) # 0 /\ Find(line, {")"}, 1) # 0
    THEN LET rest == Drop(line, Find(line, {"("}, 1))
             o2 == Find(rest, {"("}, 1)
             seg == IF o2 = 0 THEN rest ELSE SubSeq(rest, 1, o2 - 1)
             c == Find(seg, {")"}, 1)
             st == IF c = 0 THEN seg ELSE SubSeq(seg, 1, c - 1)
         IN  [i \in 1..Len(st) |-> Lower(st[i])]
    ELSE <<"casual">>

\* [e.strip() for e in text if e.strip()]: the non-blank characters
Chars(text) == SelectSeq(text, LAMBDA t : t # " ")

\* the prefixes the loop tests for with startswith
FieldWords == {"Text:", "Hashtags:", "Emojis:", "Formatting:"}

\* a variant in which a caption header leaves the active field as it is
ParseLine_header_keeps_section(st, rawline) ==
    LET line == Strip(rawline)
        cur == st.current_caption
        sec == st.current_section
    IN  IF line = <<>> THEN st
        ELSE IF Head(line) \in CaptionWords
        THEN [captions |-> IF DOMAIN cur # {} THEN Append(st.captions, cur)
                           ELSE st.captions,
              current_caption |-> Put(EmptyDict, "style", StyleOf(line)),
              current_section |-> sec]
        ELSE IF Head(line) = "Text:"
        THEN [st EXCEPT !.current_section = "text",
                        !.current_caption = Put(cur, "text", Strip(Tail(line)))]
        ELSE IF Head(line) = "Hashtags:"
        THEN [st EXCEPT !.current_section = "hashtags",
                        !.current_caption = Put(cur, "hashtags", Split(Strip(Tail(line))))]
        ELSE IF Head(line) = "Emojis:"
        THEN [st EXCEPT !.current_section = "emojis",
                        !.current_caption = Put(cur, "emojis", Chars(Strip(Tail(line))))]
        ELSE IF Head(line) = "Formatting:"
        THEN [st EXCEPT !.current_section = "formatting",
                        !.current_caption = Put(cur, "formatting", Strip(Tail(line)))]
        ELSE IF sec = "text"
        THEN [st EXCEPT !.current_caption = Put(cur, "text", cur["text"] \o <<" ">> \o line)]
        ELSE IF sec = "hashtags"
        THEN [st EXCEPT !.current_caption =
                 Put(cur, "hashtags",
                     IF Has(cur, "hashtags") THEN cur["hashtags"] \o Split(line)
                     ELSE Split(line))]
        ELSE IF sec = "emojis"
        THEN [st EXCEPT !.current_caption =
                 Put(cur, "emojis",
                     IF Has(cur, "emojis") THEN cur["emojis"] \o Chars(line)
                     ELSE Chars(line))]
        ELSE IF sec = "formatting"
        THEN [st EXCEPT !.current_caption =
                 Put(cur, "formatting", cur["formatting"] \o <<" ">> \o line)]
        ELSE st

\* current_caption["text"] += ... and current_caption["formatting"] += ...
\* raise KeyError when the current caption has no such key
ParseRaises(st, rawline) ==
    LET line == Strip(rawline)
    IN  /\ line # <<>>
        /\ Head(line) \notin CaptionWords \cup FieldWords
        /\ st.current_section \in {"text", "formatting"}
        /\ ~Has(st.current_caption, st.current_section)

\* one iteration of the loop over response_text.split('\n')
ParseLine(st, rawline) ==
    LET line == Strip(rawline)
        cur == st.current_caption
        sec == st.current_section
    IN  IF line = <<>> THEN st
        ELSE IF Head(line) \in CaptionWords
        THEN [captions |-> IF DOMAIN cur # {} THEN Append(st.captions, cur)
                           ELSE st.captions,
              current_caption |-> Put(EmptyDict, "style", StyleOf(line)),
              current_section |-> "none"]
        ELSE IF Head(line) = "Text:"
        THEN [st EXCEPT !.current_section = "text",
                        !.current_caption = Put(cur, "text", Strip(Tail(line)))]
        ELSE IF Head(line) = "Hashtags:"
        THEN [st EXCEPT !.current_section = "hashtags",
                        !.current_caption = Put(cur, "hashtags", Split(Strip(Tail(line))))]
        ELSE IF Head(line) = "Emojis:"
        THEN [st EXCEPT !.current_section = "emojis",
                        !.current_caption = Put(cur, "emojis", Chars(Strip(Tail(line))))]
        ELSE IF Head(line) = "Formatting:"
        THEN [st EXCEPT !.current_section = "formatting",
                        !.current_caption = Put(cur, "formatting", Strip(Tail(line)))]
        ELSE IF sec = "text"
        THEN [st EXCEPT !.current_caption = Put(cur, "text", cur["text"] \o <<" ">> \o line)]
        ELSE IF sec = "hashtags"
        THEN [st EXCEPT !.current_caption =
                 Put(cur, "hashtags",
                     IF Has(cur, "hashtags") THEN cur["hashtags"] \o Split(line)
                     ELSE Split(line))]
        ELSE IF sec = "emojis"
        THEN [st EXCEPT !.current_caption =
                 Put(cur, "emojis",
                     IF Has(cur, "emojis") THEN cur["emojis"] \o Chars(line)
                     ELSE Chars(line))]
        ELSE IF sec = "formatting"
        THEN [st EXCEPT !.current_caption =
                 Put(cur, "formatting", cur["formatting"] \o <<" ">> \o line)]
        ELSE st

RECURSIVE ParseLines(_, _)
ParseLines(st, lines) ==
    IF lines = <<>> THEN st ELSE ParseLines(ParseLine(st, Head(lines)), Tail(lines))

\* the clean-up loop over the parsed captions
CleanCaption(c) == IF Has(c, "text") THEN Put(c, "text", clean_parsed_text(c["text"])) ELSE c

\* CaptionGenerator._parse_caption_response; response_text is given as its lines
parse_caption_response(lines) ==
    LET st == ParseLines([captions |-> <<>>, current_caption |-> EmptyDict,
                          current_section |-> "none"], lines)
        all == IF DOMAIN st.current_caption # {}
               THEN Append(st.captions, st.current_caption) ELSE st.captions
    IN  [captions |-> [i \in 1..Len(all) |-> CleanCaption(all[i])]]

\* error_message[:50]
ErrCut == 50

ErrNote(e) == <<" (Error: ">> \o Take(e, ErrCut) \o <<"...)">>

\* the dictionary returned by the except branch
FallbackBatch(e) ==
    [error |-> e,
     captions |-> <<
        Caption(<<"casual">>, <<"Check out this amazing photo! #Instagram">> \o ErrNote(e),
                << <<"#Instagram">>, <<"#Photo">>, <<"#Share">> >>,
                <<"camera", "sparkles">>,
                <<"Add a line break after the caption text">>),
        Caption(<<"poetic">>,
                <<"Moments captured in time, forever preserved in pixels.">> \o ErrNote(e),
                << <<"#Photography">>, <<"#Moments">>, <<"#LifeCaptured">> >>,
                <<"star", "sparkles", "camera">>,
                <<"Add a line break after each sentence">>),
        Caption(<<"humorous">>, <<"When in doubt, post it anyway!">> \o ErrNote(e),
                << <<"#NoFilter">>, <<"#JustForFun">>, <<"#SocialMedia">> >>,
                <<"joy", "rofl", "raised_hands">>,
                <<"Add emojis at the end of the caption">>) >>]

\* description length limit of the prompt
MaxDescription == 500

\* the description as embedded into the prompt
PromptDescription(d0) ==
    LET d1 == IF d0 = <<>> \/ Strip(d0) = <<>> THEN <<"A beautiful image">> ELSE d0
    IN  IF Len(d1) > MaxDescription THEN Take(d1, MaxDescription) \o <<"...">> ELSE d1

\* a variant without the except branch of lines 179-208: a failed call or a
\* response without generations propagates to the caller
CaptionGenerator_generate_propagating(d0, primary, secondary) ==
    LET retried == primary.kind = "raise"
        resp == IF retried THEN secondary ELSE primary
        n == IF retried THEN 2 ELSE 1
    IN  IF CallFails(resp)
        THEN [raised |-> TRUE, err |-> resp.err, ncalls |-> n,
              batch |-> [captions |-> <<>>]]
        ELSE [raised |-> FALSE, err |-> <<>>, ncalls |-> n,
              batch |-> parse_caption_response(resp.text)]

\* one self.client.generate(model=...) call and how it ended
ModelCall(model, outcome) == [model |-> model, kind |-> outcome.kind]

\* a variant whose inner handler also retries after a response without
\* generations
CaptionGenerator_generate_retry_any(d0, primary, secondary) ==
    LET resp == IF CallFails(primary) THEN secondary ELSE primary
        made == IF CallFails(primary)
                THEN <<ModelCall("command", primary), ModelCall("command-light", secondary)>>
                ELSE <<ModelCall("command", primary)>>
    IN  IF CallFails(resp)
        THEN [raised |-> FALSE, err |-> resp.err, ncalls |-> Len(made),
              batch |-> FallbackBatch(resp.err), calls |-> made]
        ELSE [raised |-> FALSE, err |-> <<>>, ncalls |-> Len(made),
              batch |-> parse_caption_response(resp.text), calls |-> made]

\* CaptionGenerator.generate_caption_with_suggestions: primary is the outcome of
\* the "command" call, secondary that of the "command-light" call (made only
\* when the primary call raised); the text of an ok call is a sequence of lines
CaptionGenerator_generate(d0, primary, secondary) ==
    LET retried == primary.kind = "raise"
        resp == IF retried THEN secondary ELSE primary
        n == IF retried THEN 2 ELSE 1
        made == IF retried
                THEN <<ModelCall("command", primary), ModelCall("command-light", secondary)>>
                ELSE <<ModelCall("command", primary)>>
    IN  IF CallFails(resp)
        THEN [raised |-> FALSE, err |-> resp.err, ncalls |-> n,
              batch |-> FallbackBatch(resp.err), calls |-> made,
              prompt |-> PromptDescription(d0)]
        ELSE [raised |-> FALSE, err |-> <<>>, ncalls |-> n,
              batch |-> parse_caption_response(resp.text), calls |-> made,
              prompt |-> PromptDescription(d0)]

\* lines of a response, well-formed and not
ParseAlphabet == {<<>>,
                  <<"Caption", " ", "1", " ", "(", "Casual", ")", ":">>,
                  <<"Caption", " ", "2">>,
                  <<"Text:", " ", "a">>,
                  <<"Hashtags:", " ", "#a">>,
                  <<"Emojis:", " ", "e">>,
                  <<"Formatting:", " ", "f">>,
                  <<" ", "a", " ", "b">>}

ParseStart_state ==
    [captions |-> <<>>, current_caption |-> EmptyDict, current_section |-> "none"]

ParseStep(c) ==
    /\ fcall' = c
    /\ UNCHANGED <<cpc, creq, description, descLog, capLog, cresp, blipClass,
                   dcall, posts, nextId, jobs, upd, served, disk, runs, norm,
                   crud, gate, loads>>

\* _parse_caption_response is entered: lines 220-222
ParseStart ==
    /\ fcall.pc = "returned"
    /\ ParseStep([op |-> "parse", pc |-> "loop", lines |-> <<>>, st |-> ParseStart_state,
                  raised |-> FALSE, result |-> [captions |-> <<>>]])

\* one more line of the response goes through the loop body, lines 224-271
ParseFeed ==
    /\ fcall.op = "parse"
    /\ fcall.pc = "loop"
    /\ Len(fcall.lines) < MaxFed
    /\ \E line \in ParseAlphabet :
        IF ParseRaises(fcall.st, line)
        THEN ParseStep([fcall EXCEPT !.lines = Append(@, line), !.raised = TRUE,
                                     !.pc = "returned"])
        ELSE ParseStep([fcall EXCEPT !.lines = Append(@, line),
                                     !.st = ParseLine(@, line)])

\* the response has no more lines: lines 273-325 and the return
ParseReturn ==
    /\ fcall.op = "parse"
    /\ fcall.pc = "loop"
    /\ ParseStep([fcall EXCEPT !.pc = "returned",
                               !.result = parse_caption_response(fcall.lines)])

-----------------------------------------------------------------------------
(* Description extractors *)

\* An image file on disk: exists (os.path.exists), decodable (Image.open
\* succeeds), its size, the most frequent colour getcolors reports (<<>> when
\* getcolors returns None or the mode has no RGB tuple) and image.format
\* ("" when None).
Img(exists, decodable, width, height, color, format) ==
    [exists |-> exists, decodable |-> decodable, width |-> width,
     height |-> height, color |-> color, format |-> format]

Max(a, b) == IF a > b THEN a ELSE b

GenericDescription == <<"A beautiful image">>
NotFoundDescription == <<"An image that could not be found">>
DefaultDescription == <<"A beautiful image uploaded by the user">>

\* an inference outcome: the decoded description, or a failure
InferOk(d) == [ok |-> TRUE, text |-> d]
InferFail == [ok |-> FALSE, text |-> <<>>]

\* max_size of BlipImageProcessor.get_image_description
BlipMaxSize == 1000
\* the size above which a failed inference is retried on a 500x500 copy
BlipRetrySize == 500

\* the image as resized for inference: ratio = min(max/w, max/h)
Downsample(w, h, cap) ==
    IF w > cap \/ h > cap
    THEN <<(w * cap) \div Max(w, h), (h * cap) \div Max(w, h)>>
    ELSE <<w, h>>

Returned(d) == [raised |-> FALSE, text |-> d]
Raised == [raised |-> TRUE, text |-> <<>>]

\* BlipImageProcessor.get_image_description; self is the instance's
\* processor / model pair (TRUE = bound to a loaded object, FALSE = None)
BlipImageProcessor_get_image_description(self, img, infer1, infer2) ==
    IF ~self.processor \/ ~self.model THEN Returned(DefaultDescription)
    ELSE IF ~img.exists THEN Returned(NotFoundDescription)
    ELSE IF ~img.decodable THEN Returned(GenericDescription)
    ELSE LET size == Downsample(img.width, img.height, BlipMaxSize)
         IN  IF infer1.ok THEN Returned(infer1.text)
             ELSE IF (size[1] > BlipRetrySize \/ size[2] > BlipRetrySize) /\ infer2.ok
                  THEN Returned(infer2.text)
                  ELSE Returned(GenericDescription)

\* ImageProcessor.get_image_description with its lazy _load_model
ImageProcessor_get_image_description(img, load_ok, infer1) ==
    IF ~img.exists THEN Returned(NotFoundDescription)
    ELSE IF ~load_ok THEN Returned(GenericDescription)
    ELSE IF ~img.decodable THEN Returned(GenericDescription)
    ELSE IF infer1.ok THEN Returned(infer1.text)
    ELSE Returned(GenericDescription)

\* the colour classification of SimpleImageProcessor
ColorDesc(c) ==
    IF Len(c) < 3 THEN "colorful"
    ELSE LET r == c[1]  g == c[2]  b == c[3]
         IN  IF r > 200 /\ g > 200 /\ b > 200 THEN "bright white"
             ELSE IF r < 50 /\ g < 50 /\ b < 50 THEN "dark black"
             ELSE IF r > 200 /\ g < 100 /\ b < 100 THEN "vibrant red"
             ELSE IF r < 100 /\ g > 200 /\ b < 100 THEN "vibrant green"
             ELSE IF r < 100 /\ g < 100 /\ b > 200 THEN "vibrant blue"
             ELSE IF r > 200 /\ g > 200 /\ b < 100 THEN "vibrant yellow"
             ELSE IF r > 200 /\ g < 100 /\ b > 200 THEN "vibrant purple"
             ELSE IF r < 100 /\ g > 200 /\ b > 200 THEN "vibrant cyan"
             ELSE "colorful"

\* 0.9 <= width / height <= 1.1, else landscape above and portrait below
ShapeDesc(w, h) ==
    IF 9 * h <= 10 * w /\ 10 * w <= 11 * h THEN "square"
    ELSE IF 10 * w > 11 * h THEN "landscape"
    ELSE "portrait"

\* SimpleImageProcessor.get_image_description (a zero height makes the aspect
\* ratio raise ZeroDivisionError, which the outer handler turns into the
\* generic description)
SimpleImageProcessor_get_image_description(img) ==
    IF ~img.exists THEN Returned(NotFoundDescription)
    ELSE IF ~img.decodable \/ img.height = 0 THEN Returned(GenericDescription)
    ELSE Returned(<<"A ", ColorDesc(img.color), " ", ShapeDesc(img.width, img.height),
                    " image">>
                  \o (IF img.format # "" THEN <<" in ", img.format, " format">> ELSE <<>>)
                  \o <<IF img.width > 1000 \/ img.height > 1000
                       THEN " with high resolution " ELSE " with resolution ",
                       ToString(img.width), "x", ToString(img.height)>>)

\* BlipImageProcessor.__init__: cls is the class-level pair; load is what
\* from_pretrained does when it is called ("ok", "processor_fails",
\* "model_fails").  Returns the class-level pair afterwards and the instance.
BlipImageProcessor_init(cls, load) ==
    IF cls.processor /\ cls.model
    THEN [raised |-> FALSE, cls |-> cls, self |-> cls]
    ELSE IF load = "ok"
    THEN [raised |-> FALSE,
          cls |-> [processor |-> TRUE, model |-> TRUE],
          self |-> [processor |-> TRUE, model |-> TRUE]]
    ELSE [raised |-> TRUE,
          cls |-> [processor |-> FALSE, model |-> FALSE],
          self |-> [processor |-> FALSE, model |-> FALSE]]

\* the size above which save_image shrinks the stored file
SaveMaxSize == 2000

\* BlipImageProcessor.save_image: image_file.save may raise (re-raised); the
\* resize of an oversized upload is inside its own handler and never raises.
\* stored is the file as it is on disk afterwards.
\* img.resize of a size with a zero side raises ValueError, which the inner
\* handler swallows like any other failure of the resize.
BlipImageProcessor_save_image(img, save_ok, resize_ok) ==
    IF ~save_ok THEN [raised |-> TRUE, stored |-> img]
    ELSE IF img.decodable /\ resize_ok
            /\ (img.width > SaveMaxSize \/ img.height > SaveMaxSize)
    THEN LET size == Downsample(img.width, img.height, SaveMaxSize)
         IN  IF size[1] > 0 /\ size[2] > 0
             THEN [raised |-> FALSE,
                   stored |-> [img EXCEPT !.width = size[1], !.height = size[2]]]
             ELSE [raised |-> FALSE, stored |-> img]
    ELSE [raised |-> FALSE, stored |-> img]

-----------------------------------------------------------------------------
(* Inputs of the caption endpoint *)

LongText == [i \in 1..(MaxDescription + 1) |-> "a"]

\* the "text" field of a JSON request
TextInputs == {<<>>, <<" ", " ">>, <<"a">>, LongText}

\* file names of a multipart upload, as tokens around the dots
FileNames == {<<>>, <<"a", ".", "png">>, <<"a", ".", "JPG">>, <<"a", ".", "exe">>, <<"a">>}

\* uploaded image contents
Uploads == {Img(TRUE, TRUE, 400, 300, <<250, 250, 250>>, "PNG"),
            Img(TRUE, TRUE, 3000, 3000, <<>>, "JPEG"),
            Img(TRUE, FALSE, 0, 0, <<>>, "")}

\* what the BLIP model decodes
BlipTexts == {<<>>, <<"a">>}
Infers == {InferOk(d) : d \in BlipTexts} \cup {InferFail}

LoadOutcomes == {"ok", "processor_fails", "model_fails"}

\* texts a remote call of the multi-call strategy returns
DirectTexts == {<<>>, <<"a">>, <<" ", "a", " ">>, <<"\"", "\"">>, <<"Caption:">>,
                <<"Try this:", " ", "\"", "a", "\"">>}

\* lines a remote response of the single-call strategy is made of
ResponseLines == {<<>>,
                  <<"Caption", " ", "1", " ", "(", "Casual", ")", ":">>,
                  <<"Text:", " ", "a">>,
                  <<"Text:", " ", "\"", "\"">>,
                  <<"Hashtags:", " ", "#a", " ", "#b">>,
                  <<"a">>}

RECURSIVE SeqsUpTo(_, _)
SeqsUpTo(S, n) ==
    IF n = 0 THEN {<<>>}
    ELSE LET shorter == SeqsUpTo(S, n - 1)
         IN  shorter \cup {Append(q, x) : q \in shorter, x \in S}

SingleTexts == SeqsUpTo(ResponseLines, MaxLines)

ALLOWED_EXTENSIONS == {"png", "jpg", "jpeg", "gif"}

LowerExt(tok) ==
    CASE tok = "JPG" -> "jpg"
      [] tok = "PNG" -> "png"
      [] OTHER -> tok

\* '.' in filename and filename.rsplit('.', 1)[1].lower() in ALLOWED_EXTENSIONS
allowed_file(filename) ==
    /\ \E i \in 1..Len(filename) : filename[i] = "."
    /\ LET dots == {i \in 1..Len(filename) : filename[i] = "."}
           last == CHOOSE i \in dots : \A k \in dots : k <= i
           ext == Drop(filename, last)
       IN  Len(ext) = 1 /\ LowerExt(ext[1]) \in ALLOWED_EXTENSIONS

-----------------------------------------------------------------------------
(* routes/captions.py: generate_caption, one request at a time *)

NoImg == Img(FALSE, FALSE, 0, 0, <<>>, "")
NoBatch == [captions |-> <<>>]
NoReq == [kind |-> "none", filename |-> <<>>, text |-> <<>>, image |-> NoImg,
          saved |-> FALSE]
NoResp == [status |-> 0, captions |-> NoBatch, description |-> <<>>]

Attempt(strategy, r) ==
    [strategy |-> strategy, raised |-> r.raised, err |-> r.err,
     ncalls |-> r.ncalls, batch |-> r.batch,
     calls |-> IF "calls" \in DOMAIN r THEN r.calls ELSE <<>>,
     prompt |-> IF "prompt" \in DOMAIN r THEN r.prompt ELSE <<>>]

\* cohere.Client(api_key) raised inside the strategy's constructor
CtorRaised == [raised |-> TRUE, err |-> <<"client">>, ncalls |-> 0, batch |-> NoBatch]

Reject(status) ==
    /\ cresp' = [NoResp EXCEPT !.status = status]
    /\ cpc' = "done"
    /\ UNCHANGED <<description, descLog, capLog, blipClass>>

\* lines 29-63 and 141-147: identity, user lookup, input validation
CapReceive ==
    /\ cpc = "idle"
    /\ \E auth \in {"ok", "bad_identity", "no_user"},
          kind \in {"image", "text", "none"},
          filename \in FileNames, text \in TextInputs, image \in Uploads :
        /\ creq' = [kind |-> kind,
                    filename |-> IF kind = "image" THEN filename ELSE <<>>,
                    text |-> IF kind = "text" THEN text ELSE <<>>,
                    image |-> IF kind = "image" THEN image ELSE NoImg,
                    saved |-> FALSE]
        /\ IF auth = "bad_identity" THEN Reject(401)
           ELSE IF auth = "no_user" THEN Reject(404)
           ELSE IF kind = "image"
           THEN IF filename = <<>> \/ ~allowed_file(filename) THEN Reject(400)
                ELSE /\ cpc' = "describe_first"
                     /\ UNCHANGED <<description, descLog, capLog, cresp, blipClass>>
           ELSE IF kind = "text"
           THEN IF text = <<>> \/ Strip(text) = <<>> THEN Reject(400)
                ELSE /\ cpc' = "direct"
                     /\ description' = text
                     /\ UNCHANGED <<descLog, capLog, cresp, blipClass>>
           ELSE Reject(400)
    /\ UNCHANGED <<dcall, ioVars, posts, nextId, jobs, upd, served>>

DescAttempt(strategy, raised, text) ==
    [strategy |-> strategy, raised |-> raised, text |-> text]

\* lines 67-80: the first attempt with BlipImageProcessor
\* (constructor, save_image, get_image_description)
DescribeFirstResult(cls, image, load, save_ok, resize_ok, infer1, infer2) ==
    LET init == BlipImageProcessor_init(cls, load)
        save == BlipImageProcessor_save_image(image, save_ok, resize_ok)
    IN  IF init.raised
        THEN [strategy |-> "blip", raised |-> TRUE, cls |-> init.cls,
              text |-> <<>>, saved |-> FALSE]
        ELSE IF save.raised
        THEN [strategy |-> "blip", raised |-> TRUE, cls |-> init.cls,
              text |-> <<>>, saved |-> TRUE]
        ELSE [strategy |-> "blip", raised |-> FALSE, cls |-> init.cls, saved |-> TRUE,
              text |-> BlipImageProcessor_get_image_description(
                           init.self, save.stored, infer1, infer2).text]

DescribeFirst ==
    /\ cpc = "describe_first"
    /\ \E load \in LoadOutcomes, save_ok \in BOOLEAN, resize_ok \in BOOLEAN,
          infer1 \in Infers, infer2 \in Infers :
        LET r == DescribeFirstResult(blipClass, creq.image, load, save_ok,
                                     resize_ok, infer1, infer2)
        IN  /\ blipClass' = r.cls
            /\ descLog' = Append(descLog, DescAttempt(r.strategy, r.raised, r.text))
            /\ creq' = [creq EXCEPT !.saved = r.saved]
            /\ IF r.raised
               THEN /\ cpc' = "describe_second"
                    /\ UNCHANGED description
               ELSE /\ cpc' = "direct"
                    /\ description' = r.text
    /\ UNCHANGED <<capLog, cresp, dcall, ioVars, posts, nextId, jobs, upd, served>>

\* a variant of the handler that falls back to SimpleImageProcessor instead
\* of constructing BlipImageProcessor again
DescribeSecondResult_heuristic(cls, image, already_saved, load, save_ok, infer1, infer2) ==
    LET stored == IF already_saved THEN [image EXCEPT !.decodable = FALSE] ELSE image
    IN  IF ~save_ok
        THEN [strategy |-> "simple", raised |-> TRUE, cls |-> cls,
              text |-> DefaultDescription]
        ELSE [strategy |-> "simple", raised |-> FALSE, cls |-> cls,
              text |-> SimpleImageProcessor_get_image_description(stored).text]

\* lines 83-100: the handler of the first attempt: save the upload directly,
\* construct BlipImageProcessor again, describe; any exception gives the
\* default description.  A stream the first attempt already wrote out is at
\* its end, so the file saved now holds no image.
DescribeSecondResult(cls, image, already_saved, load, save_ok, infer1, infer2) ==
    LET init == BlipImageProcessor_init(cls, load)
        stored == IF already_saved THEN [image EXCEPT !.decodable = FALSE] ELSE image
    IN  IF ~save_ok
        THEN [strategy |-> "blip", raised |-> TRUE, cls |-> cls,
              text |-> DefaultDescription]
        ELSE IF init.raised
        THEN [strategy |-> "blip", raised |-> TRUE, cls |-> init.cls,
              text |-> DefaultDescription]
        ELSE [strategy |-> "blip", raised |-> FALSE, cls |-> init.cls,
              text |-> BlipImageProcessor_get_image_description(
                           init.self, stored, infer1, infer2).text]

DescribeSecond ==
    /\ cpc = "describe_second"
    /\ \E load \in LoadOutcomes, save_ok \in BOOLEAN,
          infer1 \in Infers, infer2 \in Infers :
        LET r == DescribeSecondResult(blipClass, creq.image, creq.saved, load,
                                      save_ok, infer1, infer2)
        IN  /\ blipClass' = r.cls
            /\ descLog' = Append(descLog, DescAttempt(r.strategy, r.raised, r.text))
            /\ description' = r.text
            /\ cpc' = "direct"
    /\ UNCHANGED <<creq, capLog, cresp, dcall, ioVars, posts, nextId, jobs, upd, served>>

\* lines 131-135 and 178-181: the success response
Respond(batch) ==
    cresp' = [status |-> 200, captions |-> batch, description |-> description]

\* the caption chain, lines 103-129 and 150-176; each step is one strategy.
\* A strategy that returns ends the request with the success response; one
\* that raises hands over to the next; the last one raising is caught by the
\* handler of lines 126-129 / 173-176, which answers 500.
CapStep(strategy, r, next) ==
    /\ capLog' = Append(capLog, Attempt(strategy, r))
    /\ IF ~r.raised
       THEN /\ cpc' = "done"
            /\ Respond(r.batch)
       ELSE IF next = "error"
       THEN /\ cpc' = "done"
            /\ cresp' = [NoResp EXCEPT !.status = 500]
       ELSE /\ cpc' = next
            /\ UNCHANGED cresp
    /\ UNCHANGED <<creq, description, descLog, blipClass, dcall, ioVars, posts, nextId, jobs, upd, served>>

\* the strategy tried when DirectCohereGenerator raised
AfterDirect == "single"

\* a variant in which the handler of CaptionGenerator goes back up the chain
AfterSingle_back_to_direct == "direct"

\* the strategy tried when CaptionGenerator raised
AfterSingle == "mock"

CapDirect ==
    /\ cpc = "direct"
    /\ \E ctor_ok \in BOOLEAN, calls \in [1..4 -> CallOutcomes(DirectTexts)] :
        CapStep("direct",
                IF ctor_ok THEN DirectCohereGenerator_generate(description, calls)
                ELSE CtorRaised,
                AfterDirect)

CapSingle ==
    /\ cpc = "single"
    /\ \E ctor_ok \in BOOLEAN, primary \in CallOutcomes(SingleTexts) :
       \E secondary \in (IF ctor_ok /\ primary.kind = "raise"
                         THEN CallOutcomes(SingleTexts) ELSE {CallMalformed}) :
        CapStep("single",
                IF ctor_ok THEN CaptionGenerator_generate(description, primary, secondary)
                ELSE CtorRaised,
                AfterSingle)

CapMock ==
    /\ cpc = "mock"
    /\ CapStep("mock", MockCaptionGenerator_generate(description), "error")

\* the next request; the class-level BLIP pair lives on in the process
CapNext ==
    /\ cpc = "done"
    /\ cpc' = "idle"
    /\ creq' = NoReq
    /\ description' = <<>>
    /\ descLog' = <<>>
    /\ capLog' = <<>>
    /\ cresp' = NoResp
    /\ UNCHANGED <<blipClass, dcall, ioVars, posts, nextId, jobs, upd, served>>

-----------------------------------------------------------------------------
(* A direct call of a description extractor: construct it, describe a file *)

DescribeImages == {Img(FALSE, FALSE, 0, 0, <<>>, ""),
                   Img(TRUE, FALSE, 0, 0, <<>>, ""),
                   Img(TRUE, TRUE, 400, 300, <<250, 250, 250>>, "PNG"),
                   Img(TRUE, TRUE, 600, 800, <<10, 10, 10>>, ""),
                   Img(TRUE, TRUE, 3000, 3000, <<>>, "JPEG"),
                   Img(TRUE, TRUE, 10, 0, <<>>, "PNG")}

ClassStates == {[processor |-> FALSE, model |-> FALSE],
                [processor |-> TRUE, model |-> TRUE]}

\* describe(image) of the three strategies, constructor included
Describe(strategy, cls, img, load, infer1, infer2) ==
    IF strategy = "blip"
    THEN LET init == BlipImageProcessor_init(cls, load)
         IN  IF init.raised THEN Raised
             ELSE BlipImageProcessor_get_image_description(init.self, img, infer1, infer2)
    ELSE IF strategy = "ml"
    THEN ImageProcessor_get_image_description(img, load = "ok", infer1)
    ELSE SimpleImageProcessor_get_image_description(img)

NoCall == [strategy |-> "none", cls |-> [processor |-> FALSE, model |-> FALSE],
           img |-> NoImg, load |-> "ok", infer1 |-> InferFail, infer2 |-> InferFail,
           result |-> Returned(<<>>)]

DescribeCall ==
    /\ \E strategy \in {"blip", "ml", "simple"}, cls \in ClassStates,
          img \in DescribeImages, load \in LoadOutcomes,
          infer1 \in Infers, infer2 \in Infers :
        dcall' = [strategy |-> strategy, cls |-> cls, img |-> img, load |-> load,
                  infer1 |-> infer1, infer2 |-> infer2,
                  result |-> Describe(strategy, cls, img, load, infer1, infer2)]
    /\ UNCHANGED <<cpc, creq, description, descLog, capLog, cresp, blipClass,
                   posts, nextId, jobs, upd, served, ioVars>>

-----------------------------------------------------------------------------
(* Content store and publish jobs: routes/posts.py *)

\* app.config['UPLOAD_FOLDER']
UPLOAD_FOLDER == "uploads"

\* a path is <<directory, basename>>; NoPath is a missing image_path (None)
NoPath == <<>>

\* the files on disk when the server starts
Disk == {<<"uploads", "a.jpg">>}

\* image files that may or may not be there when a job looks for them
Files == {<<"old", "a.jpg">>, <<"uploads", "a.jpg">>}

\* os.path.exists
Exists(path) == path \in disk

\* image paths a client sends
ImagePaths == {NoPath, <<"old", "a.jpg">>, <<"old", "c.jpg">>}

\* a variant that looks in the upload folder first
ResolvePath_upload_first(path) ==
    LET possible_path == <<UPLOAD_FOLDER, path[2]>>
    IN  IF Exists(possible_path) THEN possible_path ELSE path

\* the lookup shared by create_post (lines 113-123) and the job threads
\* (lines 189-202, 394-407): the literal path, else its basename in the
\* upload folder
ResolvePath(path) ==
    IF Exists(path) THEN path
    ELSE LET possible_path == <<UPLOAD_FOLDER, path[2]>>
         IN  IF Exists(possible_path) THEN possible_path ELSE path

\* a Post row; is_posted is unset on a new row
NewPost(user_id, image_path, caption, post_type) ==
    [user_id |-> user_id, image_path |-> image_path, caption |-> caption,
     post_type |-> post_type, is_posted |-> FALSE]

Insert(table, id, row) == (id :> row) @@ table

Remove(table, id) == [i \in DOMAIN table \ {id} |-> table[i]]

\* a publish job: the values its thread captured, where it stands, and the
\* acknowledgment of the request that started it ("pending" until the
\* request has answered)
NewJob(trigger, post_id, image_path, caption) ==
    [pc |-> "Resolving", trigger |-> trigger, post_id |-> post_id,
     post_image_path |-> image_path, post_caption |-> caption,
     full_image_path |-> NoPath, artifact |-> NoPath, normalized |-> FALSE,
     outcome |-> "none", killed |-> FALSE, wrote |-> 0, ack |-> "pending",
     visited |-> <<"Resolving">>]

CaptionInputs == {"", "c1"}
CredentialInputs == {"incomplete", "complete"}

\* create_post, lines 103-234, for an authenticated, existing user, up to
\* instagram_thread.start()
create_post ==
    \E caption \in CaptionInputs, path \in ImagePaths, scheduled_at \in BOOLEAN,
       credentials \in CredentialInputs :
        /\ caption # ""
        /\ ~scheduled_at
        /\ served < MaxRequests
        /\ served' = served + 1
        /\ LET image_path == IF path # NoPath /\ ~Exists(path) THEN ResolvePath(path)
                             ELSE path
               row == NewPost(1, image_path, caption, "post")
           IN  /\ posts' = Insert(posts, nextId, row)
               /\ nextId' = nextId + 1
               /\ jobs' = IF credentials = "complete"
                          THEN Append(jobs, NewJob("create", nextId, image_path, caption))
                          ELSE jobs
        /\ UNCHANGED <<upd, cpc, creq, description, descLog, capLog, cresp,
                       blipClass, dcall, ioVars>>

\* post_to_instagram_endpoint, lines 326-471, with complete credentials, up
\* to instagram_thread.start()
post_to_instagram_endpoint ==
    \E id \in DOMAIN posts :
        /\ served < MaxRequests
        /\ served' = served + 1
        /\ jobs' = Append(jobs, NewJob("endpoint", id, posts[id].image_path,
                                       posts[id].caption))
        /\ UNCHANGED <<posts, nextId, upd, cpc, creq, description, descLog,
                       capLog, cresp, blipClass, dcall, ioVars>>

\* request bodies of update_post
UpdateBodies == {[caption |-> "c2", post_type |-> "story", scheduled_at |-> FALSE],
                 [caption |-> "c2", post_type |-> "", scheduled_at |-> TRUE]}

NoUpd == [active |-> FALSE, post_id |-> 0, caption |-> "", post_type |-> "",
          scheduled_at |-> FALSE]

\* update_post, lines 270-289: the row is looked up and the fields of the
\* request body are set on the session's copy
update_post_load ==
    /\ ~upd.active
    /\ served < MaxRequests
    /\ served' = served + 1
    /\ \E id \in DOMAIN posts, data \in UpdateBodies :
        upd' = [active |-> TRUE, post_id |-> id, caption |-> data.caption,
                post_type |-> data.post_type, scheduled_at |-> data.scheduled_at]
    /\ UNCHANGED <<posts, nextId, jobs, cpc, creq, description, descLog, capLog,
                   cresp, blipClass, dcall, ioVars>>

\* a variant whose UPDATE also stores a cleared publish-status flag
CommitUpdate_clears_flag(row, u) ==
    [row EXCEPT !.caption = IF u.caption # "" THEN u.caption ELSE @,
                !.post_type = IF u.post_type # "" THEN u.post_type ELSE @,
                !.is_posted = FALSE]

\* what db.session.commit() of update_post stores: the UPDATE statement sets
\* the attributes assigned in lines 285-289 and no other column
CommitUpdate(row, u) ==
    [row EXCEPT !.caption = IF u.caption # "" THEN u.caption ELSE @,
                !.post_type = IF u.post_type # "" THEN u.post_type ELSE @]

\* update_post, lines 291-300: rejected with scheduled_at, else committed; a
\* row deleted in the meantime makes the commit fail
update_post_commit ==
    /\ upd.active
    /\ upd' = NoUpd
    /\ posts' = IF ~upd.scheduled_at /\ upd.post_id \in DOMAIN posts
                THEN [posts EXCEPT ![upd.post_id] = CommitUpdate(@, upd)]
                ELSE posts
    /\ UNCHANGED <<nextId, jobs, served, cpc, creq, description, descLog,
                   capLog, cresp, blipClass, dcall, ioVars>>

\* delete_post, lines 312-324
delete_post ==
    \E id \in DOMAIN posts :
        /\ served < MaxRequests
        /\ served' = served + 1
        /\ posts' = Remove(posts, id)
        /\ UNCHANGED <<nextId, jobs, upd, cpc, creq, description, descLog, capLog,
                       cresp, blipClass, dcall, ioVars>>

\* the thread function returns: its locals are gone, what it did remains
Finish(job, pc) ==
    [job EXCEPT !.pc = pc, !.post_image_path = NoPath,
                !.post_caption = "", !.full_image_path = NoPath,
                !.artifact = NoPath, !.normalized = FALSE]

\* the job moves on to its next working state
Enter(job, pc) == [job EXCEPT !.pc = pc, !.visited = Append(@, pc)]

JobStep(j, job) ==
    /\ jobs' = [jobs EXCEPT ![j] = job]
    /\ UNCHANGED <<nextId, upd, served, cpc, creq, description, descLog,
                   capLog, cresp, blipClass, dcall, ioVars>>

\* a variant whose response reports how the job stands
Acknowledge_job_result(job) ==
    IF job.pc = "Failed" THEN "failed"
    ELSE IF job.pc = "Done" THEN "posted" ELSE "queued"

\* the instagram_status of the response built after instagram_thread.start()
\* (lines 236-241 / 473-477): a literal, nothing of the thread is read
Acknowledge(job) == "queued"

\* the request handler that started job j returns its response; the thread
\* is not joined, so this runs wherever the job stands
TriggerRespond(j) ==
    /\ jobs[j].ack = "pending"
    /\ JobStep(j, [jobs[j] EXCEPT !.ack = Acknowledge(jobs[j])])
    /\ UNCHANGED posts

\* lines 184-202 / 389-407: no path, or no existing candidate, ends the job
JobResolve(j) ==
    /\ jobs[j].pc = "Resolving"
    /\ LET path == jobs[j].post_image_path
           full == IF path = NoPath THEN NoPath ELSE ResolvePath(path)
       IN  JobStep(j, IF path = NoPath \/ ~Exists(full)
                      THEN Finish([jobs[j] EXCEPT !.outcome = "unresolved"], "Failed")
                      ELSE [Enter(jobs[j], "Normalizing") EXCEPT
                                           !.full_image_path = full])
    /\ UNCHANGED posts

\* os.path.splitext(filename)[0] for the file names of the model
Stem(filename) ==
    CASE filename = "a.jpg" -> "a"
      [] filename = "a.png" -> "a"
      [] filename = "c.jpg" -> "c"
      [] OTHER -> filename

\* lines 32-38: the converted copy is "<name>_instagram.jpg" in the directory
\* of the original
InstagramPath(image_path) == <<image_path[1], Stem(image_path[2]) \o "_instagram.jpg">>

\* direct_instagram_poster.convert_to_instagram_size: the converted copy next
\* to the original, or the original when the conversion fails
convert_to_instagram_size(image_path, convert_ok) ==
    IF convert_ok THEN InstagramPath(image_path) ELSE image_path

\* a variant in which a failed conversion ends the job
JobNormalize_aborting(j) ==
    /\ jobs[j].pc = "Normalizing"
    /\ \E convert_ok \in BOOLEAN :
        JobStep(j, IF convert_ok
                   THEN [Enter(jobs[j], "Publishing") EXCEPT
                           !.normalized = TRUE,
                           !.artifact = InstagramPath(jobs[j].full_image_path)]
                   ELSE Finish(jobs[j], "Failed"))
    /\ UNCHANGED posts

\* direct_instagram_poster lines 56-58: instagram_image_path, the path handed
\* to the isolated process. The endpoint thread also converts the image
\* itself (posts.py lines 409-440), but the path it computes is not read
\* again: direct_post_to_instagram gets full_image_path (lines 444-449)
JobNormalize(j) ==
    /\ jobs[j].pc = "Normalizing"
    /\ \E convert_ok \in BOOLEAN :
        JobStep(j, [Enter(jobs[j], "Publishing") EXCEPT
                      !.normalized = convert_ok,
                      !.artifact = convert_to_instagram_size(
                                       jobs[j].full_image_path, convert_ok)])
    /\ UNCHANGED posts

\* how the isolated process can end: exit code 0, another exit code, still
\* running after the timeout, or not started at all (an exception in
\* post_to_instagram, caught by its handler)
ProcessOutcomes == {"exit0", "exit1", "timeout", "error"}

\* a variant that takes a process killed at the timeout for a success
ProcessSuccess_timeout_counts(outcome) == outcome \in {"exit0", "timeout"}

\* a variant that takes every exit of the process for a success
ProcessSuccess_any_exit(outcome) == outcome \in {"exit0", "exit1"}

\* success = process.returncode == 0; False on TimeoutExpired and in the handler
ProcessSuccess(outcome) == outcome = "exit0"

\* a variant whose wait never ends in TimeoutExpired
TimeoutExpired_never(outcome) == FALSE

\* process.communicate(timeout=120) raised TimeoutExpired: the process had
\* not exited when the limit expired (lines 170, 179)
TimeoutExpired(outcome) == outcome = "timeout"

\* a variant that waits without a limit: a process that does not exit keeps
\* the job in its publish step
JobPublish_unbounded_wait(j) ==
    /\ jobs[j].pc = "Publishing"
    /\ jobs[j].outcome = "none"
    /\ \E outcome \in ProcessOutcomes :
        JobStep(j, IF outcome = "timeout"
                   THEN [jobs[j] EXCEPT !.outcome = "hung"]
                   ELSE [Enter(jobs[j], "Reconciling") EXCEPT !.outcome = outcome])
    /\ UNCHANGED posts

\* direct_instagram_poster.post_to_instagram, lines 60-195: the process is
\* started and waited for; on TimeoutExpired it is killed (line 180)
JobPublish(j) ==
    /\ jobs[j].pc = "Publishing"
    /\ \E outcome \in ProcessOutcomes :
        JobStep(j, [Enter(jobs[j], "Reconciling") EXCEPT
                      !.outcome = outcome,
                      !.killed = TimeoutExpired(outcome)])
    /\ UNCHANGED posts

\* lines 218-220 / 456-458: Post.query.get and, when the row is there, the
\* assignment post.is_posted = True (not yet committed); db_ok = FALSE is a
\* database error, caught by the thread's handler
JobReconcile(j) ==
    /\ jobs[j].pc = "Reconciling"
    /\ \E db_ok \in BOOLEAN :
        JobStep(j, IF ~ProcessSuccess(jobs[j].outcome)
                   THEN Finish(jobs[j], "Failed")
                   ELSE IF ~db_ok
                   THEN Finish(jobs[j], "Failed")
                   ELSE IF jobs[j].post_id \in DOMAIN posts
                   THEN [jobs[j] EXCEPT !.pc = "Committing"]
                   ELSE Finish(jobs[j], "Done"))
    /\ UNCHANGED posts

\* a variant whose commit stores nothing
MarkPosted_lost(row) == row

\* the UPDATE of the job's commit
MarkPosted(row) == [row EXCEPT !.is_posted = TRUE]

\* a variant whose commit also stores the caption the thread was started with
JobCommit_stores_captured(j) ==
    /\ jobs[j].pc = "Committing"
    /\ \E db_ok \in BOOLEAN :
        IF db_ok /\ jobs[j].post_id \in DOMAIN posts
        THEN /\ posts' = [posts EXCEPT ![jobs[j].post_id] =
                              [MarkPosted(@) EXCEPT !.caption = jobs[j].post_caption]]
             /\ JobStep(j, [Finish(jobs[j], "Done") EXCEPT !.wrote = @ + 1])
        ELSE /\ UNCHANGED posts
             /\ JobStep(j, Finish(jobs[j], "Failed"))

\* lines 221 / 459: db.session.commit(); a row deleted since the lookup, or a
\* database error, raises into the thread's handler and nothing is stored
JobCommit(j) ==
    /\ jobs[j].pc = "Committing"
    /\ \E db_ok \in BOOLEAN :
        IF db_ok /\ jobs[j].post_id \in DOMAIN posts
        THEN /\ posts' = [posts EXCEPT ![jobs[j].post_id] = MarkPosted(@)]
             /\ JobStep(j, [Finish(jobs[j], "Done") EXCEPT !.wrote = @ + 1])
        ELSE /\ UNCHANGED posts
             /\ JobStep(j, Finish(jobs[j], "Failed"))

-----------------------------------------------------------------------------
(* The isolated posting script of direct_instagram_poster *)

\* the session directory of the wrapped library, in the working directory
\* every posting process inherits from the server (os.getcwd(), line 81)
Config == <<"cwd", "config">>

\* f"{image_path}.REMOVE_ME", line 92
Marker(image_path) == <<image_path[1], image_path[2] \o ".REMOVE_ME">>

\* sub in text
StrIn(sub, text) ==
    \E k \in 0..(Len(text) - Len(sub)) : SubSeq(text, k + 1, k + Len(sub)) = sub

\* the phrases line 132 looks for in str(e)
RenameError == <<"Cannot create a file when that ", "file already exists">>
MarkerSuffix == <<".REMOVE_ME">>

\* texts of the exceptions Bot(), bot.login and bot.upload_photo can raise
ErrorTexts ==
    {RenameError \o <<": ">> \o MarkerSuffix,
     <<"File exists: ", "file already exists", ": ">> \o MarkerSuffix,
     RenameError,
     <<"login_required">>}

\* a variant that looks for the shorter phrase
LikelyPosted_short_phrase(e) ==
    StrIn(<<"file already exists">>, e) /\ StrIn(MarkerSuffix, e)

\* line 132: the error that is taken for a publish that succeeded
LikelyPosted(e) == StrIn(RenameError, e) /\ StrIn(MarkerSuffix, e)

\* images post_to_instagram is called with: resolved, existing files
RunImages == {<<"uploads", "a.jpg">>, <<"uploads", "a.png">>}

\* a call of post_to_instagram(image_path, ...): where it stands, the path it
\* hands to the script, the script's log of steps, the results of login and
\* upload, the exception caught, the exit code
NewRun(image_path) ==
    [pc |-> "convert", image_path |-> image_path, artifact |-> NoPath,
     log |-> <<>>, login |-> "none", upload |-> "none", err |-> <<>>,
     exit |-> -1]

RunStep(i, run, d) ==
    /\ runs' = [runs EXCEPT ![i] = run]
    /\ disk' = d
    /\ UNCHANGED <<cpc, creq, description, descLog, capLog, cresp, blipClass,
                   dcall, posts, nextId, jobs, upd, served, norm, crud, callVars>>

\* lines 129-135 and 147-148: the script's handler and its exit code
Caught(run, e) ==
    [run EXCEPT !.pc = "exited", !.err = e,
                !.exit = IF LikelyPosted(e) THEN 0 ELSE 1,
                !.image_path = NoPath, !.artifact = NoPath]

\* lines 115-117, 123-128, 147-148: the script returns and exits
Exit(run, success) ==
    [run EXCEPT !.pc = "exited", !.exit = IF success THEN 0 ELSE 1,
                !.image_path = NoPath, !.artifact = NoPath]

\* a job thread calls post_to_instagram (posts.py lines 206, 444)
PostStart ==
    /\ Len(runs) < MaxRuns
    /\ \E image_path \in RunImages :
        /\ runs' = Append(runs, NewRun(image_path))
        /\ UNCHANGED <<disk, cpc, creq, description, descLog, capLog, cresp,
                       blipClass, dcall, posts, nextId, jobs, upd, served,
                       norm, crud, callVars>>

\* lines 56-58: the converted copy is written next to the original
RunConvert(i) ==
    /\ runs[i].pc = "convert"
    /\ \E convert_ok \in BOOLEAN :
        LET path == convert_to_instagram_size(runs[i].image_path, convert_ok)
        IN  RunStep(i, [runs[i] EXCEPT !.pc = "clean_session", !.artifact = path],
                    disk \cup {path})

\* lines 78-87 and 102: the session directory is removed if it is there; an
\* error of the removal is logged and the script goes on
RunCleanSession(i) ==
    /\ runs[i].pc = "clean_session"
    /\ \E rm_ok \in BOOLEAN :
        LET d == IF rm_ok THEN disk \ {Config} ELSE disk
        IN  RunStep(i, [runs[i] EXCEPT !.pc = "clean_markers",
                                       !.log = Append(@, "clean_session")], d)

\* lines 89-97 and 105: the same for the marker of the image to upload
RunCleanMarkers(i) ==
    /\ runs[i].pc = "clean_markers"
    /\ \E rm_ok \in BOOLEAN :
        LET d == IF rm_ok THEN disk \ {Marker(runs[i].artifact)} ELSE disk
        IN  RunStep(i, [runs[i] EXCEPT !.pc = "bot",
                                       !.log = Append(@, "clean_markers")], d)

\* line 109: Bot()
RunBot(i) ==
    /\ runs[i].pc = "bot"
    /\ \/ RunStep(i, [runs[i] EXCEPT !.pc = "login", !.log = Append(@, "bot")], disk)
       \/ \E e \in ErrorTexts :
            RunStep(i, Caught([runs[i] EXCEPT !.log = Append(@, "bot")], e), disk)

\* a variant that goes on to the upload whatever the login returned
RunLogin_ignores_result(i) ==
    /\ runs[i].pc = "login"
    /\ \E result \in {"true", "false"} :
        RunStep(i, [runs[i] EXCEPT !.pc = "upload", !.login = result,
                                   !.log = Append(@, "login")],
                disk \cup {Config})

\* lines 113-117: bot.login; the library keeps the session it opens in the
\* session directory
RunLogin(i) ==
    /\ runs[i].pc = "login"
    /\ \/ RunStep(i, [runs[i] EXCEPT !.pc = "upload", !.login = "true",
                                     !.log = Append(@, "login")],
                  disk \cup {Config})
       \/ RunStep(i, Exit([runs[i] EXCEPT !.login = "false",
                                          !.log = Append(@, "login")], FALSE),
                  disk)
       \/ \E e \in ErrorTexts :
            RunStep(i, Caught([runs[i] EXCEPT !.login = "raised",
                                              !.log = Append(@, "login")], e), disk)

\* lines 121-128: bot.upload_photo; the library renames the file it worked on
\* to its marker name, and an interrupted upload can leave the marker behind
RunUpload(i) ==
    /\ runs[i].pc = "upload"
    /\ \E leaves_marker \in BOOLEAN :
        LET d == IF leaves_marker THEN disk \cup {Marker(runs[i].artifact)} ELSE disk
            run == [runs[i] EXCEPT !.log = Append(@, "upload")]
        IN  \/ \E result \in BOOLEAN :
                 RunStep(i, Exit([run EXCEPT !.upload = IF result THEN "true" ELSE "false"],
                                 result), d)
            \/ \E e \in ErrorTexts :
                 RunStep(i, Caught([run EXCEPT !.upload = "raised"], e), d)

-----------------------------------------------------------------------------
(* The content store requests of several callers: routes/posts.py *)

\* the authenticated callers, each an existing user
Users == {1, 2}

\* the ids a request can name: those handed out and one that never was
PostIds == 1..(MaxRequests + 1)

\* a variant of the lookup that does not filter by owner
OwnedPost_any_owner(post_id, user_id) == post_id \in DOMAIN posts

\* Post.query.filter_by(id=post_id, user_id=user_id).first() found a row
OwnedPost(post_id, user_id) ==
    post_id \in DOMAIN posts /\ posts[post_id].user_id = user_id

\* the answer of a request: status, message, and for the list the ids of the
\* posts in the order returned
Answer(op, user_id, post_id, status, message, ids) ==
    [op |-> op, user_id |-> user_id, post_id |-> post_id, status |-> status,
     message |-> message, posts |-> ids]

\* return jsonify({'message': 'Post not found'}), 404
NotFound(op, user_id, post_id) ==
    Answer(op, user_id, post_id, 404, "Post not found", <<>>)

\* order_by(Post.created_at.desc()): rows get their creation time when they
\* are inserted, so the latest insert, which has the highest id, comes first
RECURSIVE ByCreatedDesc(_)
ByCreatedDesc(ids) ==
    IF ids = {} THEN <<>>
    ELSE LET latest == CHOOSE x \in ids : \A y \in ids : y <= x
         IN  <<latest>> \o ByCreatedDesc(ids \ {latest})

CrudStep(answer, table, id, threads, count) ==
    /\ crud' = answer
    /\ posts' = table
    /\ nextId' = id
    /\ jobs' = threads
    /\ served' = count
    /\ UNCHANGED <<cpc, creq, description, descLog, capLog, cresp, blipClass,
                   dcall, upd, disk, runs, norm, callVars>>

\* create_post, lines 75-264, by any caller: the two validations, the
\* insert, and the thread started when the credentials are complete
CallerCreate ==
    \E user_id \in Users, caption \in CaptionInputs, scheduled_at \in BOOLEAN,
       credentials \in CredentialInputs :
        /\ served < MaxRequests
        /\ IF caption = ""
           THEN CrudStep(Answer("create", user_id, 0, 400, "Missing caption", <<>>),
                         posts, nextId, jobs, served + 1)
           ELSE IF scheduled_at
           THEN CrudStep(Answer("create", user_id, 0, 400,
                                "Scheduled posts are not supported", <<>>),
                         posts, nextId, jobs, served + 1)
           ELSE CrudStep(Answer("create", user_id, nextId, 201,
                                "Post created successfully", <<>>),
                         Insert(posts, nextId, NewPost(user_id, NoPath, caption, "post")),
                         nextId + 1,
                         IF credentials = "complete"
                         THEN Append(jobs, [NewJob("create", nextId, NoPath, caption)
                                               EXCEPT !.ack = Acknowledge(@)])
                         ELSE jobs,
                         served + 1)

\* get_posts, lines 19-45
get_posts ==
    \E user_id \in Users :
        CrudStep(Answer("list", user_id, 0, 200, "",
                        ByCreatedDesc({id \in DOMAIN posts : posts[id].user_id = user_id})),
                 posts, nextId, jobs, served)

\* get_post, lines 47-71
get_post ==
    \E user_id \in Users, post_id \in PostIds :
        CrudStep(IF OwnedPost(post_id, user_id)
                 THEN Answer("get", user_id, post_id, 200, "", <<post_id>>)
                 ELSE NotFound("get", user_id, post_id),
                 posts, nextId, jobs, served)

\* a variant in which the attributes set before the rejection are flushed
Discard_flushes(row, data) == CommitUpdate(row, data)

\* update_post, lines 284-292: caption and post_type are assigned on the
\* session's copy, then the handler returns 400 without a commit; the
\* session is dropped with the request and the stored row stays as it was
Discard(row, data) == row

\* update_post, lines 266-300, as one step
CallerUpdate ==
    \E user_id \in Users, post_id \in PostIds, data \in UpdateBodies :
        /\ served < MaxRequests
        /\ IF ~OwnedPost(post_id, user_id)
           THEN CrudStep(NotFound("update", user_id, post_id), posts, nextId, jobs,
                         served + 1)
           ELSE IF data.scheduled_at
           THEN CrudStep(Answer("update", user_id, post_id, 400,
                                "Scheduled posts are not supported", <<>>),
                         [posts EXCEPT ![post_id] = Discard(@, data)],
                         nextId, jobs, served + 1)
           ELSE CrudStep(Answer("update", user_id, post_id, 200,
                                "Post updated successfully", <<post_id>>),
                         [posts EXCEPT ![post_id] = CommitUpdate(@, data)],
                         nextId, jobs, served + 1)

\* delete_post, lines 302-324
CallerDelete ==
    \E user_id \in Users, post_id \in PostIds :
        /\ served < MaxRequests
        /\ IF ~OwnedPost(post_id, user_id)
           THEN CrudStep(NotFound("delete", user_id, post_id), posts, nextId, jobs,
                         served + 1)
           ELSE CrudStep(Answer("delete", user_id, post_id, 200,
                                "Post deleted successfully", <<>>),
                         Remove(posts, post_id), nextId, jobs, served + 1)

\* post_to_instagram_endpoint, lines 326-485, up to its response
CallerPublish ==
    \E user_id \in Users, post_id \in PostIds, credentials \in CredentialInputs :
        /\ served < MaxRequests
        /\ IF ~OwnedPost(post_id, user_id)
           THEN CrudStep(NotFound("publish", user_id, post_id), posts, nextId, jobs,
                         served + 1)
           ELSE IF credentials # "complete"
           THEN CrudStep(Answer("publish", user_id, post_id, 400,
                                "Missing Instagram credentials", <<>>),
                         posts, nextId, jobs, served + 1)
           ELSE CrudStep(Answer("publish", user_id, post_id, 200,
                                "Instagram posting has been queued", <<>>),
                         posts, nextId,
                         Append(jobs, [NewJob("endpoint", post_id, posts[post_id].image_path,
                                              posts[post_id].caption)
                                          EXCEPT !.ack = Acknowledge(@)]),
                         served + 1)

-----------------------------------------------------------------------------
(* BlipImageProcessor.__init__ run by several request threads of one process.
   The steps are the statements of lines 21-46; an object returned by
   from_pretrained is named by a positive number, None by 0. *)

None == 0

NoLoads == [processor |-> None, model |-> None, made |-> 0, pairs |-> 0, ctors |-> <<>>]

NewCtor == [pc |-> "check", processor |-> None, model |-> None]

LoadStep(l) ==
    /\ loads' = l
    /\ UNCHANGED <<cpc, creq, description, descLog, capLog, cresp, blipClass,
                   dcall, posts, nextId, jobs, upd, served, disk, runs, norm,
                   crud, gate, fcall>>

At(i, pc) == [loads EXCEPT !.ctors[i].pc = pc]

\* a request thread calls BlipImageProcessor(upload_folder)
CtorStart ==
    /\ Len(loads.ctors) < MaxCtors
    /\ LoadStep([loads EXCEPT !.ctors = Append(@, NewCtor)])

\* line 21: if _processor is None or _model is None
CtorCheck(i) ==
    /\ loads.ctors[i].pc = "check"
    /\ LoadStep(At(i, IF loads.processor = None \/ loads.model = None
                      THEN "load_processor" ELSE "bind_processor"))

\* lines 25-31: BlipImageProcessor._processor = BlipProcessor.from_pretrained(...)
CtorLoadProcessor(i) ==
    /\ loads.ctors[i].pc = "load_processor"
    /\ \E ok \in BOOLEAN :
        LoadStep(IF ok
                 THEN [loads EXCEPT !.processor = loads.made + 1, !.made = @ + 1,
                                    !.ctors[i].pc = "load_model"]
                 ELSE At(i, "reset_processor"))

\* lines 32-36: BlipImageProcessor._model = BlipForConditionalGeneration.from_pretrained(...)
CtorLoadModel(i) ==
    /\ loads.ctors[i].pc = "load_model"
    /\ \E ok \in BOOLEAN :
        LoadStep(IF ok
                 THEN [loads EXCEPT !.model = loads.made + 1, !.made = @ + 1,
                                    !.pairs = @ + 1,
                                    !.ctors[i].pc = "bind_processor"]
                 ELSE At(i, "reset_processor"))

\* line 40, in the except branch: BlipImageProcessor._processor = None
CtorResetProcessor(i) ==
    /\ loads.ctors[i].pc = "reset_processor"
    /\ LoadStep([loads EXCEPT !.processor = None, !.ctors[i].pc = "reset_model"])

\* lines 41-42: BlipImageProcessor._model = None; raise
CtorResetModel(i) ==
    /\ loads.ctors[i].pc = "reset_model"
    /\ LoadStep([loads EXCEPT !.model = None, !.ctors[i].pc = "raised"])

\* line 45: self.processor = BlipImageProcessor._processor
CtorBindProcessor(i) ==
    /\ loads.ctors[i].pc = "bind_processor"
    /\ LoadStep([loads EXCEPT !.ctors[i].processor = loads.processor,
                              !.ctors[i].pc = "bind_model"])

\* line 46: self.model = BlipImageProcessor._model, and the constructor returns
CtorBindModel(i) ==
    /\ loads.ctors[i].pc = "bind_model"
    /\ LoadStep([loads EXCEPT !.ctors[i].model = loads.model,
                              !.ctors[i].pc = "returned"])

-----------------------------------------------------------------------------
(* The file the caption endpoint stores for an upload: captions.py 67-89 *)

SaveSizes == {1, 1500, 2000, 2001, 3000, 4001}

SaveImages == {Img(TRUE, TRUE, w, h, <<>>, "JPEG") : w \in SaveSizes, h \in SaveSizes}

\* the save of the first attempt (BlipImageProcessor.save_image, line 71) when
\* the extractor could be constructed and the save did not raise; else the
\* direct image_file.save of the handler (lines 84-87), which does not look
\* at the size.  After a save that raised the stream is not rewound.
StoredUpload(image, load, save_ok, resize_ok) ==
    LET init == BlipImageProcessor_init([processor |-> FALSE, model |-> FALSE], load)
        save == BlipImageProcessor_save_image(image, save_ok, resize_ok)
    IN  IF init.raised THEN [path |-> "direct", stored |-> image]
        ELSE IF save.raised
        THEN [path |-> "direct", stored |-> [image EXCEPT !.decodable = FALSE]]
        ELSE [path |-> "save_image", stored |-> save.stored]

\* an upload goes through the saves of the handler
SaveUpload ==
    /\ \E image \in SaveImages, load \in LoadOutcomes, save_ok \in BOOLEAN,
          resize_ok \in BOOLEAN :
        LET r == StoredUpload(image, load, save_ok, resize_ok)
        IN  fcall' = [op |-> "save", pc |-> "returned", image |-> image,
                      path |-> r.path, stored |-> r.stored]
    /\ UNCHANGED <<cpc, creq, description, descLog, capLog, cresp, blipClass,
                   dcall, posts, nextId, jobs, upd, served, disk, runs, norm,
                   crud, gate, loads>>

-----------------------------------------------------------------------------
(* A direct call of the caption clean-up *)

CleanAlphabet == {"a", " ", "\"", "Try this:", "Sure, how about:", "Caption:",
                  ";position:absolute;", "}"}

\* the texts handed to the clean-up; both callers strip the text first
CleanTexts == {t \in SeqsUpTo(CleanAlphabet, MaxClean) : Strip(t) = t}

\* the clean-up of the multi-call strategy and that of the response parser
Clean(cleaner, text) ==
    IF cleaner = "direct" THEN clean_caption(text) ELSE clean_parsed_text(text)

\* the clean-up is applied to a text, and once more to what it returned
CleanCall ==
    /\ fcall.op = "none"
    /\ \E cleaner \in {"direct", "parsed"}, text \in CleanTexts :
        fcall' = [op |-> "clean", pc |-> "returned", cleaner |-> cleaner,
                  text |-> text, once |-> Clean(cleaner, text),
                  twice |-> Clean(cleaner, Clean(cleaner, text))]
    /\ UNCHANGED <<cpc, creq, description, descLog, capLog, cresp, blipClass,
                   dcall, posts, nextId, jobs, upd, served, disk, runs, norm,
                   crud, gate, loads>>

-----------------------------------------------------------------------------
(* The token identity on the protected endpoints: routes/*.py *)

\* the identities a token can carry: login and register issue str(user.id);
\* the others are what a token signed elsewhere with the same key can hold
Identities == {"1", "2", "abc", "1.5", "None"}

\* int(user_id_str): the value, or ValueError / TypeError
ParseInt(identity) ==
    CASE identity = "1" -> [ok |-> TRUE, value |-> 1]
      [] identity = "2" -> [ok |-> TRUE, value |-> 2]
      [] OTHER -> [ok |-> FALSE, value |-> 0]

Endpoints == {"generate_caption", "create_post", "get_post", "get_posts",
              "update_post", "delete_post", "post_to_instagram_endpoint",
              "profile", "set_instagram_credentials"}

\* the handlers that run int(get_jwt_identity()) inside try / except and
\* return 401 from the except branch; the other three hand the identity to
\* User.query.get as it comes
ParsesIdentity(endpoint) ==
    endpoint \notin {"update_post", "delete_post", "post_to_instagram_endpoint"}

\* User.query.get(key) on the integer primary key.  A numeric string is cast
\* by the database; with a non-numeric string the comparison either matches
\* no row or is refused by the database with an error, depending on the
\* database behind DATABASE_URI
UserLookup(users, identity) ==
    IF ParseInt(identity).ok
    THEN IF ParseInt(identity).value \in users THEN {"found"} ELSE {"none"}
    ELSE {"none", "error"}

\* the status the handler answers with after the lookup; 200 stands for the
\* handler going on with its work
LookupStatus(outcome) ==
    CASE outcome = "found" -> 200
      [] outcome = "none" -> 404
      [] outcome = "error" -> 500

NoAuth == [users |-> {}, endpoint |-> "none", identity |-> "", parsed |-> FALSE,
           looked_up |-> FALSE, status |-> 0]

AuthStep(a) ==
    /\ gate' = a
    /\ UNCHANGED <<cpc, creq, description, descLog, capLog, cresp, blipClass,
                   dcall, posts, nextId, jobs, upd, served, disk, runs, norm,
                   crud, loads, fcall>>

\* register: a new user row; the token carries str(new_user.id)
register ==
    \E id \in Users :
        /\ id = Cardinality(gate.users) + 1
        /\ AuthStep([users |-> gate.users \cup {id}, endpoint |-> "register",
                     identity |-> IF id = 1 THEN "1" ELSE "2", parsed |-> FALSE,
                     looked_up |-> FALSE, status |-> 201])

\* the head of a protected handler: identity, parse, user lookup
ProtectedCall ==
    \E endpoint \in Endpoints, identity \in Identities :
        IF ParsesIdentity(endpoint) /\ ~ParseInt(identity).ok
        THEN AuthStep([users |-> gate.users, endpoint |-> endpoint,
                       identity |-> identity, parsed |-> FALSE,
                       looked_up |-> FALSE, status |-> 401])
        ELSE \E outcome \in UserLookup(gate.users, identity) :
                AuthStep([users |-> gate.users, endpoint |-> endpoint,
                          identity |-> identity,
                          parsed |-> ParsesIdentity(endpoint),
                          looked_up |-> TRUE, status |-> LookupStatus(outcome)])

-----------------------------------------------------------------------------
(* The image normalizers *)

\* the side of the square every normalizer resizes to
InstagramSize == 1080

\* decodable images: size, colour mode and file format as PIL reports them
\* (a JPEG file decodes to L, RGB or CMYK, a PNG file to L, P, RGB or RGBA)
NormSizes == {1, 2, 1080, 1081, 4000}
NormImages ==
    {[width |-> w, height |-> h, mode |-> m[1], format |-> m[2]] :
        w \in NormSizes, h \in NormSizes,
        m \in {<<"L", "JPEG">>, <<"RGB", "JPEG">>, <<"CMYK", "JPEG">>,
               <<"L", "PNG">>, <<"P", "PNG">>, <<"RGB", "PNG">>, <<"RGBA", "PNG">>}}

\* bands of a PIL mode
Channels(mode) ==
    CASE mode = "RGB" -> 3
      [] mode \in {"RGBA", "CMYK"} -> 4
      [] OTHER -> 1

\* Image.save: the JPEG writer takes L, RGB and CMYK, the PNG writer L, P,
\* RGB and RGBA; any other mode raises
SaveOk(mode, format) ==
    IF format = "JPEG" THEN mode \in {"L", "RGB", "CMYK"}
    ELSE mode \in {"L", "P", "RGB", "RGBA"}

\* the centred square: min_dim, left, top, right, bottom
CropBox(width, height) ==
    LET min_dim == Min(width, height)
        left == (width - min_dim) \div 2
        top == (height - min_dim) \div 2
    IN  [left |-> left, top |-> top, right |-> left + min_dim,
         bottom |-> top + min_dim]

\* the file a normalizer returns: the converted copy, or the original when
\* something raised
Converted(image, mode) ==
    [normalized |-> TRUE, width |-> InstagramSize, height |-> InstagramSize,
     mode |-> mode, box |-> CropBox(image.width, image.height)]
Original(image) ==
    [normalized |-> FALSE, width |-> image.width, height |-> image.height,
     mode |-> image.mode, box |-> CropBox(image.width, image.height)]

\* direct_instagram_poster.convert_to_instagram_size (the same code is in
\* simple_instagram_poster): crop, resize, convert to RGB, save as JPEG
Normalize_direct(image) == Converted(image, "RGB")

\* the conversion of the endpoint thread, posts.py lines 409-440: convert to
\* RGB, crop, resize, save as JPEG
Normalize_inline(image) == Converted(image, "RGB")

\* BlipImageProcessor.convert_to_instagram_size (the same code is in
\* ImageProcessor and SimpleImageProcessor): crop, resize, save under the
\* original extension, in the mode the image has
Normalize_blip(image) ==
    IF SaveOk(image.mode, image.format) THEN Converted(image, image.mode)
    ELSE Original(image)

\* instagram_poster.post_to_instagram_direct, lines 376-434: converted to RGB
\* only when the format is neither JPEG nor PNG, then crop, resize, save as
\* JPEG
Normalize_poster(image) ==
    LET mode == IF image.format \notin {"JPEG", "JPG", "PNG"} THEN "RGB"
                ELSE image.mode
    IN  IF SaveOk(mode, "JPEG") THEN Converted(image, mode) ELSE Original(image)

Normalizers == {"direct", "inline", "blip", "poster"}

Normalize(normalizer, image) ==
    CASE normalizer = "direct" -> Normalize_direct(image)
      [] normalizer = "inline" -> Normalize_inline(image)
      [] normalizer = "blip" -> Normalize_blip(image)
      [] normalizer = "poster" -> Normalize_poster(image)

\* a direct call of a normalizer on a decodable image
NormalizeCall ==
    /\ \E normalizer \in Normalizers, image \in NormImages :
        norm' = [normalizer |-> normalizer, image |-> image,
                 result |-> Normalize(normalizer, image)]
    /\ UNCHANGED <<cpc, creq, description, descLog, capLog, cresp, blipClass,
                   dcall, posts, nextId, jobs, upd, served, disk, runs, crud,
                   callVars>>

-----------------------------------------------------------------------------
(* Specifications *)

InitCaption ==
    /\ cpc = "idle"
    /\ creq = NoReq
    /\ description = <<>>
    /\ descLog = <<>>
    /\ capLog = <<>>
    /\ cresp = NoResp
    /\ blipClass = [processor |-> FALSE, model |-> FALSE]
    /\ dcall = NoCall

InitPublish ==
    /\ posts = <<>>
    /\ nextId = 1
    /\ jobs = <<>>
    /\ upd = NoUpd
    /\ served = 0

\* no script run, no direct call yet
InitCalls ==
    /\ runs = <<>>
    /\ norm = <<>>
    /\ crud = <<>>
    /\ gate = NoAuth
    /\ loads = NoLoads
    /\ fcall = [op |-> "none", pc |-> "returned"]

Init == InitCaption /\ InitPublish /\ InitCalls /\ disk = Disk

NextCaption ==
    \/ CapReceive
    \/ DescribeFirst
    \/ DescribeSecond
    \/ CapDirect
    \/ CapSingle
    \/ CapMock
    \/ CapNext

\* the caption endpoint
SpecCaption == Init /\ [][NextCaption]_vars

\* direct calls of the description extractors
SpecDescribe == Init /\ [][DescribeCall]_vars

\* the response of a publish trigger
Responding == \E j \in 1..Len(jobs) : TriggerRespond(j)

\* a step of some publish job's thread
Resolving == \E j \in 1..Len(jobs) : JobResolve(j)
Normalizing == \E j \in 1..Len(jobs) : JobNormalize(j)
Publishing == \E j \in 1..Len(jobs) : JobPublish(j)
Reconciling == \E j \in 1..Len(jobs) : JobReconcile(j)
Committing == \E j \in 1..Len(jobs) : JobCommit(j)

NextPublish ==
    \/ create_post
    \/ post_to_instagram_endpoint
    \/ update_post_load
    \/ update_post_commit
    \/ delete_post
    \/ Responding
    \/ Resolving
    \/ Normalizing
    \/ Publishing
    \/ Reconciling
    \/ Committing

\* the content store, its CRUD requests and the publish jobs
SpecPublish == Init /\ [][NextPublish]_vars

\* the publish jobs by themselves: the requests that start a job or delete
\* its record, and the steps of the threads
NextJobs ==
    \/ create_post
    \/ post_to_instagram_endpoint
    \/ delete_post
    \/ Resolving
    \/ Normalizing
    \/ Publishing
    \/ Reconciling
    \/ Committing

\* every started thread runs on: a started thread is scheduled until its
\* function returns, and each of its steps ends (the wait for the isolated
\* process by exit or by the timeout)
SpecJobsFair ==
    /\ Init
    /\ [][NextJobs]_vars
    /\ WF_vars(Resolving)
    /\ WF_vars(Normalizing)
    /\ WF_vars(Publishing)
    /\ WF_vars(Reconciling)
    /\ WF_vars(Committing)

\* a record whose publish job has just been started
InitRace ==
    /\ InitCaption
    /\ InitCalls
    /\ disk = Disk
    /\ posts = Insert(<<>>, 1, NewPost(1, <<"uploads", "a.jpg">>, "c1", "post"))
    /\ nextId = 2
    /\ jobs = <<NewJob("endpoint", 1, <<"uploads", "a.jpg">>, "c1")>>
    /\ upd = NoUpd
    /\ served = 0

\* the requests that change or delete the record, and the steps of the thread
NextRace ==
    \/ update_post_load
    \/ update_post_commit
    \/ delete_post
    \/ Resolving
    \/ Normalizing
    \/ Publishing
    \/ Reconciling
    \/ Committing

\* a running publish job beside update and delete requests for its record;
\* the started thread is scheduled until its function returns
SpecRace ==
    /\ InitRace
    /\ [][NextRace]_vars
    /\ WF_vars(Resolving)
    /\ WF_vars(Normalizing)
    /\ WF_vars(Publishing)
    /\ WF_vars(Reconciling)
    /\ WF_vars(Committing)

\* a record created earlier, with any stored path, and any of the image
\* files present or gone by now
InitResolve ==
    /\ InitCaption
    /\ InitCalls
    /\ disk \in SUBSET Files
    /\ \E path \in ImagePaths : posts = Insert(<<>>, 1, NewPost(1, path, "c1", "post"))
    /\ nextId = 2
    /\ jobs = <<>>
    /\ upd = NoUpd
    /\ served = 0

\* publish jobs for records whose image file may have moved
SpecResolve == InitResolve /\ [][NextJobs]_vars

\* a step of some run of the posting script
Converting == \E i \in 1..Len(runs) : RunConvert(i)
CleaningSession == \E i \in 1..Len(runs) : RunCleanSession(i)
CleaningMarkers == \E i \in 1..Len(runs) : RunCleanMarkers(i)
CreatingBot == \E i \in 1..Len(runs) : RunBot(i)
LoggingIn == \E i \in 1..Len(runs) : RunLogin(i)
Uploading == \E i \in 1..Len(runs) : RunUpload(i)

InitScript ==
    /\ InitCaption
    /\ InitPublish
    /\ InitCalls
    /\ disk = RunImages

NextScript ==
    \/ PostStart
    \/ Converting
    \/ CleaningSession
    \/ CleaningMarkers
    \/ CreatingBot
    \/ LoggingIn
    \/ Uploading

\* calls of post_to_instagram, one after another or at the same time, over
\* one file system
SpecScript == InitScript /\ [][NextScript]_vars

NextOwners ==
    \/ CallerCreate
    \/ get_posts
    \/ get_post
    \/ CallerUpdate
    \/ CallerDelete
    \/ CallerPublish

\* the content store requests of two callers
SpecOwners == Init /\ [][NextOwners]_vars

\* the admission of requests: the validations of the caption endpoint and of
\* the content store handlers
NextValidation ==
    \/ CapReceive
    \/ CapNext
    \/ NextOwners

SpecValidation == Init /\ [][NextValidation]_vars

Checking == \E i \in 1..Len(loads.ctors) : CtorCheck(i)
LoadingProcessor == \E i \in 1..Len(loads.ctors) : CtorLoadProcessor(i)
LoadingModel == \E i \in 1..Len(loads.ctors) : CtorLoadModel(i)
ResettingProcessor == \E i \in 1..Len(loads.ctors) : CtorResetProcessor(i)
ResettingModel == \E i \in 1..Len(loads.ctors) : CtorResetModel(i)
BindingProcessor == \E i \in 1..Len(loads.ctors) : CtorBindProcessor(i)
BindingModel == \E i \in 1..Len(loads.ctors) : CtorBindModel(i)

NextLoader ==
    \/ CtorStart
    \/ Checking
    \/ LoadingProcessor
    \/ LoadingModel
    \/ ResettingProcessor
    \/ ResettingModel
    \/ BindingProcessor
    \/ BindingModel

\* constructions of the BLIP extractor by the request threads of one process
SpecLoader == Init /\ [][NextLoader]_vars

\* uploads of every size through the saves of the caption endpoint
SpecSave == Init /\ [][SaveUpload]_vars

\* direct calls of the caption clean-up
SpecClean == Init /\ [][CleanCall]_vars

\* direct calls of the response parser of the single-call strategy
SpecParse == Init /\ [][ParseStart \/ ParseFeed \/ ParseReturn]_vars

\* calls of the protected endpoints with any identity a token can carry
SpecIdentity == Init /\ [][register \/ ProtectedCall]_vars

\* direct calls of the image normalizers
SpecNormalize == Init /\ [][NormalizeCall]_vars

-----------------------------------------------------------------------------
(* Properties of the caption endpoint (SpecCaption) *)

\* a batch a client can use: at least one caption, every caption with a
\* non-empty text
Usable(batch) ==
    /\ Len(batch.captions) >= 1
    /\ \A k \in 1..Len(batch.captions) :
          Has(batch.captions[k], "text") /\ batch.captions[k]["text"] # <<>>

\* sub occurs in text
Contains(text, sub) ==
    \E k \in 0..(Len(text) - Len(sub)) : SubSeq(text, k + 1, k + Len(sub)) = sub

\* C1: every batch a caption strategy returns holds at least one caption and
\* every caption in it has a non-empty text, whatever the description and
\* whatever the remote calls did.
C1_ReturnedBatchUsable ==
    \A i \in 1..Len(capLog) : ~capLog[i].raised => Usable(capLog[i].batch)

\* C2: a caption request that passed authentication and validation is always
\* answered with the success status and a usable batch.
C2_ValidatedRequestSucceeds ==
    (cpc = "done" /\ cresp.status \notin {400, 401, 404})
        => (cresp.status = 200 /\ Usable(cresp.captions))

\* C3 (as stated): no strategy that made a remote call propagates an
\* exception to the endpoint.
C3_NoStrategyRaises ==
    \A i \in 1..Len(capLog) : capLog[i].ncalls > 0 => ~capLog[i].raised

\* C3 (amended): once constructed, the single-call strategy never propagates:
\* a failed call or a response without generations gives three fallback
\* captions, each carrying the error text, and a batch with the error; the
\* template strategy has no failure; the multi-call strategy propagates the
\* error of its first failing call and returns nothing.
C3_SingleCallCatches ==
    \A i \in 1..Len(capLog) :
        LET a == capLog[i]
        IN  /\ (a.strategy = "single" /\ a.ncalls > 0) =>
                  /\ ~a.raised
                  /\ (a.err = <<>>) => ~Has(a.batch, "error")
                  /\ (a.err # <<>>) =>
                        /\ Has(a.batch, "error")
                        /\ a.batch["error"] = a.err
                        /\ Len(a.batch.captions) = 3
                        /\ \A k \in 1..3 :
                              Contains(a.batch.captions[k]["text"], Take(a.err, ErrCut))
            /\ (a.strategy = "mock") =>
                  ~a.raised /\ a.err = <<>> /\ ~Has(a.batch, "error")
            /\ (a.strategy = "direct") =>
                  /\ a.raised <=> a.err # <<>>
                  /\ a.raised => a.batch.captions = <<>>

\* the single-call strategy caught a failure and returned its fallback batch
C3_Witness ==
    \E i \in 1..Len(capLog) :
        capLog[i].strategy = "single" /\ ~capLog[i].raised /\ capLog[i].err # <<>>

\* C23: an invocation of the single-call strategy makes at most two
\* generation calls; the "command-light" call is made only as the second
\* call, after the "command" call raised, and only once; the fallback captions
\* are returned only when the last call made has failed or its response could
\* not be read.
C23_SecondaryOnceAfterPrimaryRaised ==
    \A i \in 1..Len(capLog) :
        LET a == capLog[i]
        IN  (a.strategy = "single" /\ a.ncalls > 0) =>
              /\ Len(a.calls) = a.ncalls
              /\ Len(a.calls) <= 2
              /\ a.calls[1].model = "command"
              /\ \A k \in 1..Len(a.calls) :
                    (a.calls[k].model = "command-light") =>
                        k = 2 /\ a.calls[1].kind = "raise"
              /\ (a.calls[1].kind = "raise") => Len(a.calls) = 2
              /\ Has(a.batch, "error") <=> a.calls[Len(a.calls)].kind # "ok"

\* the primary call raised, the secondary call was made and failed as well,
\* and the fallback captions were returned
C23_Witness ==
    \E i \in 1..Len(capLog) :
        /\ capLog[i].strategy = "single"
        /\ Len(capLog[i].calls) = 2
        /\ capLog[i].calls[2].kind = "raise"
        /\ Has(capLog[i].batch, "error")

\* C25: whichever remote strategy builds a prompt, the description in it is
\* the placeholder when the description given is empty or blank, its first 500
\* characters followed by an ellipsis when it is longer than 500, and the
\* description itself otherwise.
C25_PromptDescriptionNormalized ==
    \A i \in 1..Len(capLog) :
        LET a == capLog[i]
            d == description
        IN  (a.strategy \in {"direct", "single"} /\ a.ncalls > 0) =>
              a.prompt = IF d = <<>> \/ Strip(d) = <<>> THEN <<"A beautiful image">>
                         ELSE IF Len(d) > 500 THEN SubSeq(d, 1, 500) \o <<"...">>
                         ELSE d

\* the caption chain, top down
ChainOrder == <<"direct", "single", "mock">>

\* C4: within one request the strategies are attempted in the order
\* multi-call, single-call, template; a lower one only after the one above
\* raised, none after a strategy returned, none twice.
C4_FixedOrder ==
    /\ Len(capLog) <= Len(ChainOrder)
    /\ \A i \in 1..Len(capLog) : capLog[i].strategy = ChainOrder[i]
    /\ \A i \in 1..(Len(capLog) - 1) : capLog[i].raised
    /\ (capLog # <<>> /\ ~capLog[Len(capLog)].raised) => cpc = "done"
    /\ (cpc \in {"direct", "single", "mock"}) => cpc = ChainOrder[Len(capLog) + 1]

\* the chain was walked to its end: all three strategies attempted, in order
C4_Witness ==
    Len(capLog) = 3 /\ cpc = "done" /\ cresp.status = 200

\* C5 (as stated): after the ML description strategy raised it is not tried
\* again in the same request.
C5_MLNotRetried ==
    \A i, k \in 1..Len(descLog) :
        (i # k) => ~(descLog[i].strategy = "blip" /\ descLog[k].strategy = "blip")

\* C5 (amended): the description chain is BlipImageProcessor, then, only
\* after that raised, BlipImageProcessor once more on the directly saved
\* file, then the constant default description; no other extractor is used
\* and the description handed on is that of the last attempt.
C5_BlipTwiceThenDefault ==
    /\ Len(descLog) <= 2
    /\ \A i \in 1..Len(descLog) : descLog[i].strategy = "blip"
    /\ (Len(descLog) = 2) => descLog[1].raised
    /\ (cpc = "describe_second") => (Len(descLog) = 1 /\ descLog[1].raised)
    /\ (Len(descLog) = 2 /\ descLog[2].raised) => description = DefaultDescription
    /\ (descLog # <<>> /\ cpc # "describe_second")
          => description = descLog[Len(descLog)].text

\* both attempts raised and the default description was handed on
C5_Witness ==
    /\ Len(descLog) = 2
    /\ descLog[2].raised
    /\ description = DefaultDescription
    /\ cpc = "direct"

-----------------------------------------------------------------------------
(* Properties of the description extractors (SpecDescribe) *)

\* C6: describing an image never raises to the caller, for every extractor.
C6_DescribeNeverRaises ==
    (dcall.strategy # "none") => ~dcall.result.raised

-----------------------------------------------------------------------------
(* Properties of the publish workflow (SpecPublish) *)

JobIds == 1..Len(jobs)

\* C7: the publish-status flag is written only by the commit of a job's
\* reconciling step, only when that job's publish process reported success,
\* at most once per job, and never by a job that is still resolving,
\* normalizing or publishing; a new row starts with the flag unset.
C7_FlagWrittenOnlyAfterSuccess ==
    /\ [](\A j \in JobIds :
            /\ jobs[j].wrote <= 1
            /\ (jobs[j].pc \in {"Resolving", "Normalizing", "Publishing", "Reconciling"})
                  => jobs[j].wrote = 0
            /\ (jobs[j].wrote = 1) => jobs[j].outcome = "exit0")
    /\ [][/\ \A r \in DOMAIN posts' \ DOMAIN posts : ~posts'[r].is_posted
          /\ \A r \in DOMAIN posts \cap DOMAIN posts' :
                (posts'[r].is_posted # posts[r].is_posted) =>
                    \E j \in JobIds :
                        /\ jobs[j].pc = "Committing"
                        /\ jobs[j].post_id = r
                        /\ jobs[j].outcome = "exit0"
                        /\ jobs[j].wrote = 0
                        /\ jobs'[j].wrote = 1
                        /\ jobs'[j].pc = "Done"
          /\ \A j \in JobIds :
                (jobs'[j].wrote # jobs[j].wrote) =>
                    /\ jobs[j].pc = "Committing"
                    /\ jobs[j].outcome = "exit0"
                    /\ posts'[jobs[j].post_id].is_posted]_vars

\* one job has set the flag of a record while another job for the same
\* record is still publishing and has written nothing
C7_Witness ==
    \E j, k \in JobIds :
        /\ j # k
        /\ jobs[j].post_id = jobs[k].post_id
        /\ jobs[j].wrote = 1
        /\ jobs[j].outcome = "exit0"
        /\ jobs[k].pc = "Publishing"
        /\ jobs[k].wrote = 0

\* C8: in every step (of any job, of any CRUD request) a record whose flag is
\* set and which still exists keeps the flag set; a primary key is never
\* handed out again.
C8_FlagMonotonic ==
    [][/\ \A r \in DOMAIN posts \cap DOMAIN posts' :
             posts[r].is_posted => posts'[r].is_posted
       /\ \A r \in DOMAIN posts' \ DOMAIN posts : r = nextId /\ nextId' > r]_vars

\* an update of a record is in flight while the record's flag is set
C8_Witness ==
    /\ upd.active
    /\ ~upd.scheduled_at
    /\ upd.post_id \in DOMAIN posts
    /\ posts[upd.post_id].is_posted

\* what the publish step of a job that cannot succeed leaves in the job
FailureCauses == {"unresolved", "exit1", "timeout", "error"}

\* C9: a job that fails, whatever the cause, has written nothing, the step
\* that ends it leaves every record as it was, and the acknowledgment its
\* trigger returned stays what it was.
C9_FailedJobLeavesRecord ==
    /\ [](\A j \in JobIds :
            /\ (jobs[j].outcome \in FailureCauses) =>
                  (jobs[j].wrote = 0 /\ jobs[j].pc \in {"Reconciling", "Failed"})
            /\ (jobs[j].pc = "Failed") =>
                  (jobs[j].wrote = 0 /\ jobs[j].ack \in {"pending", "queued"}))
    /\ [][\A j \in JobIds :
            (jobs[j].pc # "Failed" /\ jobs'[j].pc = "Failed") => posts' = posts]_vars

\* a job whose publish process ran into the timeout has failed and its record
\* is still there, unpublished
C9_Witness ==
    \E j \in JobIds :
        /\ jobs[j].pc = "Failed"
        /\ jobs[j].outcome = "timeout"
        /\ jobs[j].post_id \in DOMAIN posts
        /\ ~posts[jobs[j].post_id].is_posted

\* C11: both publish triggers answer "queued" without waiting for the job:
\* the response can be produced wherever the job stands, producing it changes
\* nothing of the job, and what it says is "queued" however the job ends and
\* is never revised afterwards.
C11_QueuedWithoutWaiting ==
    /\ [](\A j \in JobIds :
            /\ jobs[j].ack \in {"pending", "queued"}
            /\ (jobs[j].ack = "pending") => ENABLED TriggerRespond(j))
    /\ [][\A j \in JobIds :
            (jobs'[j].ack # jobs[j].ack) =>
                /\ jobs[j].ack = "pending"
                /\ jobs'[j] = [jobs[j] EXCEPT !.ack = "queued"]
                /\ posts' = posts]_vars

\* the create trigger answered "queued" for a job that had already failed,
\* and the publish endpoint answered "queued" for a job that is still
\* publishing
C11_Witness ==
    \E j, k \in JobIds :
        /\ jobs[j].trigger = "create"
        /\ jobs[j].pc = "Failed"
        /\ jobs[j].ack = "queued"
        /\ jobs[k].trigger = "endpoint"
        /\ jobs[k].pc = "Publishing"
        /\ jobs[k].ack = "queued"

\* the working states of a job, in order
StateOrder == <<"Resolving", "Normalizing", "Publishing", "Reconciling">>

\* how far a job has come; the commit belongs to the reconciling step
Rank(pc) ==
    CASE pc = "Resolving" -> 1
      [] pc = "Normalizing" -> 2
      [] pc = "Publishing" -> 3
      [] pc \in {"Reconciling", "Committing"} -> 4
      [] OTHER -> 5

C30_JobBesideUpdateAndDelete ==
    /\ [][/\ DOMAIN posts' \subseteq DOMAIN posts
          /\ \A j \in JobIds :
                jobs'[j] # jobs[j] =>
                    /\ DOMAIN posts' = DOMAIN posts
                    /\ \A id \in DOMAIN posts :
                          \/ posts'[id] = posts[id]
                          \/ /\ id = jobs[j].post_id
                             /\ posts'[id] = [posts[id] EXCEPT !.is_posted = TRUE]
                    /\ jobs'[j].pc \in {"Resolving", "Normalizing", "Publishing",
                                        "Reconciling", "Committing", "Done",
                                        "Failed"}]_vars
    /\ \A j \in 1..MaxRequests :
          [](j \in JobIds => <>(j \in JobIds /\ jobs[j].pc \in {"Done", "Failed"}))

\* the job has written its flag and the record carries the caption and the
\* type of an update request
C30_Witness ==
    \E j \in JobIds :
        /\ jobs[j].pc = "Done"
        /\ jobs[j].wrote = 1
        /\ jobs[j].post_id \in DOMAIN posts
        /\ posts[jobs[j].post_id] =
              [NewPost(1, <<"uploads", "a.jpg">>, "c2", "story")
                  EXCEPT !.is_posted = TRUE]

\* C13: a publish process that has not exited when the limit expires is
\* killed, and only then; the attempt counts as failed, the job ends in
\* Failed without having written the flag, and the step that ends it leaves
\* every record as it was.
C13_TimeoutKillsAndFails ==
    /\ [](\A j \in JobIds :
            /\ jobs[j].killed <=> jobs[j].outcome = "timeout"
            /\ jobs[j].killed =>
                  /\ ~ProcessSuccess(jobs[j].outcome)
                  /\ jobs[j].wrote = 0
                  /\ jobs[j].pc \in {"Reconciling", "Failed"})
    /\ [][\A j \in JobIds :
            (jobs[j].killed /\ jobs'[j].pc # jobs[j].pc) =>
                (jobs[j].pc = "Reconciling" /\ jobs'[j].pc = "Failed" /\ posts' = posts)]_vars

\* a job whose process was killed at the limit has failed, while another job
\* for the same record has set the flag
C13_Witness ==
    \E j, k \in JobIds :
        /\ jobs[j].killed
        /\ jobs[j].pc = "Failed"
        /\ jobs[j].wrote = 0
        /\ jobs[k].post_id = jobs[j].post_id
        /\ jobs[k].wrote = 1

\* C14: the resolving step of a job with a stored path uses the stored path
\* if it exists, else the stored path's basename in the upload folder if that
\* exists, and goes on to Normalizing with the one it found; with no stored
\* path or no existing candidate the job ends in Failed, having visited no
\* other state; a job that failed to resolve never published or wrote.
C14_FirstExistingCandidate ==
    /\ [](\A j \in JobIds :
            (jobs[j].outcome = "unresolved") =>
                /\ jobs[j].pc = "Failed"
                /\ jobs[j].visited = <<"Resolving">>
                /\ jobs[j].wrote = 0)
    /\ [][\A j \in JobIds :
            (jobs[j].pc = "Resolving" /\ jobs'[j].pc # "Resolving") =>
                LET stored == jobs[j].post_image_path
                    inUploads == <<UPLOAD_FOLDER, stored[2]>>
                IN  IF stored # NoPath /\ stored \in disk
                    THEN jobs'[j].pc = "Normalizing" /\ jobs'[j].full_image_path = stored
                    ELSE IF stored # NoPath /\ inUploads \in disk
                    THEN jobs'[j].pc = "Normalizing" /\ jobs'[j].full_image_path = inUploads
                    ELSE jobs'[j].pc = "Failed" /\ jobs'[j].outcome = "unresolved"]_vars

\* the stored file is gone, a file of the same name is in the upload folder,
\* and the job is publishing the upload-folder copy
C14_Witness ==
    \E j \in JobIds :
        /\ jobs[j].pc = "Publishing"
        /\ jobs[j].post_image_path = <<"old", "a.jpg">>
        /\ <<"old", "a.jpg">> \notin disk
        /\ jobs[j].full_image_path = <<UPLOAD_FOLDER, "a.jpg">>

\* C16: the normalizing step always takes the job on to Publishing, whether
\* or not the conversion succeeded; the path handed to the publish process
\* is the converted copy exactly when the conversion succeeded and the
\* resolved original otherwise.
C16_NormalizeFailureNotFatal ==
    /\ [](\A j \in JobIds :
            (jobs[j].pc = "Publishing") =>
                /\ jobs[j].full_image_path # NoPath
                /\ jobs[j].normalized =>
                      jobs[j].artifact = InstagramPath(jobs[j].full_image_path)
                /\ ~jobs[j].normalized =>
                      jobs[j].artifact = jobs[j].full_image_path)
    /\ [][\A j \in JobIds :
            (jobs[j].pc = "Normalizing" /\ jobs'[j].pc # "Normalizing") =>
                /\ jobs'[j].pc = "Publishing"
                /\ jobs'[j].full_image_path = jobs[j].full_image_path]_vars

\* a job whose conversion failed is publishing the resolved original
C16_Witness ==
    \E j \in JobIds :
        /\ jobs[j].pc = "Publishing"
        /\ ~jobs[j].normalized
        /\ jobs[j].artifact = <<UPLOAD_FOLDER, "a.jpg">>

\* C10 (as stated): a finished job whose publish step reported success has
\* left its record, if the record still exists, with the flag set.
C10_SuccessAlwaysRecorded ==
    \A j \in JobIds :
        (/\ jobs[j].outcome = "exit0"
         /\ jobs[j].pc \in {"Done", "Failed"}
         /\ jobs[j].post_id \in DOMAIN posts)
            => posts[jobs[j].post_id].is_posted

\* C10 (amended): a finished job whose publish step reported success has
\* either committed the flag, once, and the record keeps it while it exists;
\* or found the record deleted and ended without writing; or was ended by an
\* exception of the lookup or of the commit, without writing.
C10_SuccessRecordedWhenCommitted ==
    \A j \in JobIds :
        (jobs[j].outcome = "exit0" /\ jobs[j].pc \in {"Done", "Failed"}) =>
            \/ /\ jobs[j].pc = "Done"
               /\ jobs[j].wrote = 1
               /\ (jobs[j].post_id \in DOMAIN posts) => posts[jobs[j].post_id].is_posted
            \/ /\ jobs[j].pc = "Done"
               /\ jobs[j].wrote = 0
               /\ jobs[j].post_id \notin DOMAIN posts
            \/ /\ jobs[j].pc = "Failed"
               /\ jobs[j].wrote = 0

\* a job committed the flag and the record is observed as published
C10_Witness ==
    \E j \in JobIds :
        /\ jobs[j].pc = "Done"
        /\ jobs[j].wrote = 1
        /\ jobs[j].post_id \in DOMAIN posts
        /\ posts[jobs[j].post_id].is_posted

-----------------------------------------------------------------------------
(* Properties of the posting script (SpecScript) *)

RunIds == 1..Len(runs)

\* C15 (as stated): a run that caught an error whose text holds both "file
\* already exists" and the marker suffix exits with the success code.
C15_ExistsAndMarkerIsSuccess ==
    \A i \in RunIds :
        (/\ runs[i].pc = "exited"
         /\ StrIn(<<"file already exists">>, runs[i].err)
         /\ StrIn(<<".REMOVE_ME">>, runs[i].err))
            => runs[i].exit = 0

\* C15 (amended): the script exits with the success code exactly when the
\* upload returned true, or Bot(), the login or the upload raised an error
\* whose text holds both "Cannot create a file when that file already
\* exists" and the marker suffix; every other error, a false login and a
\* false upload give the failure code.
C15_RenameErrorIsSuccess ==
    \A i \in RunIds :
        (runs[i].pc = "exited") =>
            /\ runs[i].exit \in {0, 1}
            /\ (runs[i].exit = 0) <=>
                  \/ runs[i].upload = "true"
                  \/ /\ StrIn(<<"Cannot create a file when that ", "file already exists">>,
                              runs[i].err)
                     /\ StrIn(<<".REMOVE_ME">>, runs[i].err)

\* the upload raised the rename error naming the marker and the script exited
\* with the success code
C15_Witness ==
    \E i \in RunIds :
        /\ runs[i].pc = "exited"
        /\ runs[i].upload = "raised"
        /\ runs[i].err = <<"Cannot create a file when that ", "file already exists",
                           ": ", ".REMOVE_ME">>
        /\ runs[i].exit = 0

\* the steps of the script, in program order
ScriptOrder == <<"clean_session", "clean_markers", "bot", "login", "upload">>

\* C18 (as stated): in every run the session directory is gone when the
\* session clean-up has run and the marker of the image to upload is gone
\* when the marker clean-up has run, both before the login.
C18_CleanedBeforeLogin ==
    [][\A i \in RunIds :
         /\ (runs[i].pc = "clean_session" /\ runs'[i].pc # "clean_session")
               => Config \notin disk'
         /\ (runs[i].pc = "clean_markers" /\ runs'[i].pc # "clean_markers")
               => Marker(runs[i].artifact) \notin disk']_vars

\* C18 (amended): every run, first or later, takes the steps session
\* clean-up, marker clean-up, Bot(), login, upload in that order and none
\* twice; the upload is only reached after a login that returned true; each
\* clean-up step removes just its target, the session directory or the
\* marker of the image handed to the script, or, when the removal raises,
\* removes nothing and the run goes on to the login all the same.
C18_CleanupAttemptedThenLogin ==
    /\ [](\A i \in RunIds :
            /\ runs[i].log = SubSeq(ScriptOrder, 1, Len(runs[i].log))
            /\ (runs[i].pc = "login") => Len(runs[i].log) = 3
            /\ (runs[i].pc = "upload" \/ Len(runs[i].log) = 5) => runs[i].login = "true"
            /\ (runs[i].login # "true") => runs[i].upload = "none")
    /\ [][\A i \in RunIds :
            /\ (runs[i].pc = "clean_session" /\ runs'[i].pc # "clean_session") =>
                  /\ runs'[i].pc = "clean_markers"
                  /\ disk' \in {disk, disk \ {Config}}
            /\ (runs[i].pc = "clean_markers" /\ runs'[i].pc # "clean_markers") =>
                  /\ runs'[i].pc = "bot"
                  /\ disk' \in {disk, disk \ {Marker(runs[i].artifact)}}]_vars

\* an earlier run has ended in an exception of the upload, and a later run
\* has cleaned up, found neither session directory nor marker left, and is
\* about to log in
C18_Witness ==
    \E i, k \in RunIds :
        /\ i < k
        /\ runs[i].pc = "exited"
        /\ runs[i].upload = "raised"
        /\ runs[k].pc = "login"
        /\ Config \notin disk
        /\ Marker(runs[k].artifact) \notin disk

\* C19: a step of one run leaves alone what belongs to another run that is
\* under way for a different image: the session directory while the other
\* is logged in, the file the other hands to the script, and that file's
\* marker.
C19_RunsIndependent ==
    [][\A i, k \in RunIds :
         (/\ i # k
          /\ runs[i].pc \notin {"convert", "exited"}
          /\ runs[k].pc # "exited"
          /\ runs[i].image_path # runs[k].image_path
          /\ runs'[k] # runs[k]) =>
            /\ (runs[i].pc = "upload" /\ Config \in disk) => Config \in disk'
            /\ (runs[i].artifact \in disk) <=> (runs[i].artifact \in disk')
            /\ (Marker(runs[i].artifact) \in disk) <=> (Marker(runs[i].artifact) \in disk')]_vars

-----------------------------------------------------------------------------
(* Properties of the image normalizers (SpecNormalize) *)

\* C17: every normalizer turns every decodable image into a 1080 x 1080
\* image with three channels, cut from the centred square on the smaller
\* dimension: offset (larger - smaller) / 2 rounded down, box inside the
\* image.
C17_NormalizedSquareRGB ==
    (norm # <<>>) =>
        LET image == norm.image
            r == norm.result
            smaller == IF image.width < image.height THEN image.width ELSE image.height
        IN  /\ r.normalized
            /\ r.width = 1080 /\ r.height = 1080
            /\ Channels(r.mode) = 3
            /\ r.box.left = (image.width - smaller) \div 2
            /\ r.box.top = (image.height - smaller) \div 2
            /\ r.box.right - r.box.left = smaller
            /\ r.box.bottom - r.box.top = smaller
            /\ r.box.left >= 0 /\ r.box.top >= 0
            /\ r.box.right <= image.width /\ r.box.bottom <= image.height

-----------------------------------------------------------------------------
(* Properties of the owner scoping (SpecOwners) *)

\* the requests that name one record
ByIdOps == {"get", "update", "delete", "publish"}

\* C20: a get, update, delete or publish request for a record of another
\* owner is answered exactly like the same request for an id that does not
\* exist, with 404 "Post not found"; it starts no job and leaves every record
\* as it was; the list holds the caller's own records, all of them, latest
\* first, and no other.
C20_ForeignIsNotFound ==
    [][(crud' # crud) =>
        LET c == crud'
            exists == c.post_id \in DOMAIN posts
            own == exists /\ posts[c.post_id].user_id = c.user_id
        IN  /\ (c.op \in ByIdOps /\ ~own) =>
                  /\ c = [op |-> c.op, user_id |-> c.user_id, post_id |-> c.post_id,
                          status |-> 404, message |-> "Post not found", posts |-> <<>>]
                  /\ posts' = posts
                  /\ jobs' = jobs
            /\ (c.op \in ByIdOps /\ own) => c.status # 404
            /\ (c.op = "list") =>
                  /\ posts' = posts
                  /\ \A k \in 1..Len(c.posts) :
                        /\ c.posts[k] \in DOMAIN posts
                        /\ posts[c.posts[k]].user_id = c.user_id
                  /\ \A id \in DOMAIN posts :
                        (posts[id].user_id = c.user_id) =>
                            \E k \in 1..Len(c.posts) : c.posts[k] = id
                  /\ \A k \in 1..(Len(c.posts) - 1) : c.posts[k] > c.posts[k + 1]]_vars

\* a caller asked to delete another owner's record, was told it was not
\* found, and the record is still there
C20_Witness ==
    /\ crud # <<>>
    /\ crud.op = "delete"
    /\ crud.status = 404
    /\ crud.post_id \in DOMAIN posts
    /\ posts[crud.post_id].user_id # crud.user_id

-----------------------------------------------------------------------------
(* Properties of the BLIP loader (SpecLoader) *)

CtorIds == 1..Len(loads.ctors)

\* C26: in one process a complete model/processor pair is loaded at most
\* once, whatever the order and interleaving of the constructions, and all
\* extractor instances hold the same processor and the same model.
C26_PairLoadedOnce ==
    /\ loads.pairs <= 1
    /\ \A i, j \in CtorIds :
          (loads.ctors[i].pc = "returned" /\ loads.ctors[j].pc = "returned") =>
              /\ loads.ctors[i].processor = loads.ctors[j].processor
              /\ loads.ctors[i].model = loads.ctors[j].model

\* C29: a BlipImageProcessor whose constructor returned holds a processor
\* and a model, under every interleaving of the constructions.
C29_ReturnedInstanceComplete ==
    \A i \in CtorIds :
        (loads.ctors[i].pc = "returned") =>
            loads.ctors[i].processor # None /\ loads.ctors[i].model # None

-----------------------------------------------------------------------------
(* Properties of the stored upload (SpecSave) *)

\* C27: whichever save of the caption endpoint stored the upload, an image
\* with a side above 2000 pixels is stored with its larger side at most 2000
\* and its aspect ratio kept up to rounding, and an image with both sides at
\* most 2000 is stored unchanged.
C27_StoredWithinLimit ==
    (fcall.op = "save" /\ fcall.stored.decodable) =>
        LET w == fcall.image.width
            h == fcall.image.height
            sw == fcall.stored.width
            sh == fcall.stored.height
        IN  IF w > 2000 \/ h > 2000
            THEN /\ sw <= 2000 /\ sh <= 2000
                 /\ sw * h - sh * w <= Max(w, h)
                 /\ sh * w - sw * h <= Max(w, h)
            ELSE fcall.stored = fcall.image

-----------------------------------------------------------------------------
(* Properties of the caption clean-up (SpecClean) *)

\* C28: after one application of the clean-up the text starts with no
\* preamble phrase, is not wrapped in a pair of quotes and holds no
\* ";position:" fragment, and a second application returns it unchanged.
C28_CleanIdempotent ==
    (fcall.op = "clean") =>
        LET t == fcall.once
        IN  /\ fcall.twice = t
            /\ \A i \in 1..Len(prefixes_to_remove) : ~StartsWith(t, prefixes_to_remove[i])
            /\ ~(StartsWith(t, "\"") /\ EndsWith(t, "\""))
            /\ \A k \in 1..Len(t) : t[k] \notin CssStartTokens

-----------------------------------------------------------------------------
(* Properties of the response parser (SpecParse) *)

\* C24: on every sequence of lines the parser goes through the loop without
\* raising and returns; a line without a recognised prefix is skipped when no
\* field is active and is otherwise appended to the active field of the
\* current caption; a caption header ends the active field.
C24_ParserTotal ==
    [][(fcall.op = "parse" /\ fcall.pc = "loop" /\ fcall' # fcall) =>
        LET st == fcall.st
            new == fcall'.st
            sec == st.current_section
            line == IF fcall'.lines # fcall.lines
                    THEN Strip(fcall'.lines[Len(fcall'.lines)]) ELSE <<>>
        IN  /\ ~fcall'.raised
            /\ (line # <<>> /\ Head(line) \in CaptionWords) =>
                    new.current_section = "none"
            /\ (line # <<>> /\ Head(line) \notin CaptionWords \cup FieldWords) =>
                  /\ (sec = "none") => new = st
                  /\ (sec \in {"text", "formatting"}) =>
                        new.current_caption[sec] =
                            st.current_caption[sec] \o <<" ">> \o line
                  /\ (sec = "hashtags") =>
                        new.current_caption[sec] = st.current_caption[sec] \o Split(line)
                  /\ (sec = "emojis") =>
                        new.current_caption[sec] = st.current_caption[sec] \o Chars(line)
                  /\ (sec # "none") =>
                        /\ new.captions = st.captions
                        /\ new.current_section = sec
                        /\ \A k \in DOMAIN st.current_caption \ {sec} :
                              new.current_caption[k] = st.current_caption[k]]_vars

\* a continuation line was appended to the text of a caption, and the parser
\* returned that caption
C24_Witness ==
    /\ fcall.op = "parse"
    /\ fcall.pc = "returned"
    /\ ~fcall.raised
    /\ Len(fcall.result.captions) = 1
    /\ Has(fcall.result.captions[1], "text")
    /\ fcall.result.captions[1]["text"] = <<"a", " ", "a", " ", "b">>

-----------------------------------------------------------------------------
(* Properties of the input validation (SpecValidation) *)

\* C22: a request rejected with 400 for its input (no caption, scheduled_at,
\* empty or disallowed file name, blank text, no image and no text, missing
\* credentials) changes nothing: no row is created or modified, no file is
\* stored, no publish job is started, and no description extractor or caption
\* generator has been invoked.
C22_RejectedWithoutEffect ==
    [][
        /\ (cpc = "idle" /\ cpc' = "done" /\ cresp'.status = 400) =>
            /\ ~creq'.saved
            /\ descLog' = <<>> /\ capLog' = <<>>
            /\ blipClass' = blipClass
            /\ disk' = disk /\ posts' = posts /\ jobs' = jobs
        /\ (served' # served /\ crud'.status = 400) =>
            /\ posts' = posts /\ nextId' = nextId /\ jobs' = jobs
            /\ disk' = disk
            /\ descLog' = descLog /\ capLog' = capLog /\ blipClass' = blipClass
    ]_vars

\* an update with scheduled_at was rejected and the row still has the caption
\* it was created with
C22_Witness ==
    /\ crud # <<>>
    /\ crud.op = "update"
    /\ crud.status = 400
    /\ crud.post_id \in DOMAIN posts
    /\ posts[crud.post_id].caption = "c1"
    /\ posts[crud.post_id].post_type = "post"

-----------------------------------------------------------------------------
(* Properties of the identity handling (SpecIdentity) *)

\* C21: on every protected endpoint the identity is parsed to an integer
\* before the user lookup, and an identity that is not a number is answered
\* with 401, without a lookup.
C21_IdentityParsedOr401 ==
    gate.endpoint \in Endpoints =>
        /\ gate.looked_up => gate.parsed
        /\ ~ParseInt(gate.identity).ok => (gate.status = 401 /\ ~gate.looked_up)

====
